---- MODULE Spec2Model ----
(***************************************************************************)
(* Therefore Report Generator: the workflow-instance aggregation client    *)
(* (app/services/therefore.py) and the report orchestration                *)
(* (app/services/report.py), as state machines.                            *)
(*                                                                         *)
(* One remote call (one await of ThereforeClient._post) is one step.  The  *)
(* remote system is the environment: what it holds is fixed in the initial *)
(* state, whether a call reaches it is chosen per call.                    *)
(***************************************************************************)
EXTENDS Integers, Sequences, FiniteSets, TLC

VARIABLES
    pc,                 \* position of the running coroutine
    \* ---- remote system
    rows,               \* rows[p]: ResultRows of process p for the flags of this call
    active,             \* active[p]: CountValue of p in statistics query type 102
    \* ---- arguments of get_all_workflow_instances
    process_nos,        \* requested scope, <<>> for None / empty
    workflow_flags,     \* NoFlags for None
    \* ---- locals of the query stage
    unique_process_nos,
    qi,                 \* loop index of the per-process loops
    instance_nos,
    result_rows,        \* ResultRows of the fallback's statistics response
    process_ids,
    all_instances,
    failed_processes,
    unique_instances,
    \* ---- remote system, instance details
    assigned,           \* assigned[n]: the users instance n is assigned to
    unreachable,        \* the instances whose GetWorkflowInstance request fails
    members,            \* members[g]: the Users entries GetUsersFromGroup holds for group g
    group_outcome,      \* group_outcome[g]: how the GetUsersFromGroup request for g ends
    \* ---- detail fetch of get_all_workflow_instances
    progress_callback,  \* TRUE when a callback was passed
    skip_user_expansion,
    task,               \* task[i]: where fetch_instance of the i-th ref stands
    semaphore,          \* value of asyncio.Semaphore(10)
    waiters,            \* its FIFO of blocked tasks
    instances_with_tokens,
    completed_count,
    progress,           \* the arguments of the progress_callback calls, in order
    results,
    \* ---- stores read and written by process_report
    config,             \* what get_report_by_id .. get_default_smtp_config find
    now,                \* the clock
    cron_schedule,      \* of the report; 0 for an expression croniter rejects
    last_run,
    next_run,
    run_logs,
    send_all_to_admin,  \* of the report
    admin_email,        \* of the report, "" when not set
    \* ---- ReportProcessor and the locals of process_report
    instances_found,
    emails_sent,
    emails_failed,
    messages,
    instances_by_user,
    invalid_instances,
    email_messages,
    sent,
    failed,
    outbox,             \* the send attempts, in order
    returned,           \* what process_report returned
    exception,          \* text of the exception that was raised, "" when none
    \* ---- what an observer of the client sees
    calls,              \* the _post calls issued, in order
    printed,            \* the calls whose failure _post printed
    \* ---- the entry point running, and what the test variants give back
    variant,            \* process_report, test_report, test_report_with_data, render_preview
    instances_data,     \* the serialized groups test_report_with_data returns
    preview,            \* the group a preview was rendered for, and its recipient
    \* ---- the process-wide cache of workflow processes and its callers
    clock,              \* datetime.utcnow(), in half hours
    process_cache,      \* _process_cache: tenant name -> (timestamp, data)
    gap,                \* the calls of get_all_workflow_processes, in order of their start
    clear_log,          \* the clear_process_cache calls, in order: the argument, and
                        \* the calls of get_all_workflow_processes started before
    \* ---- the scheduler, the manual runs, and the runs of process_report they start
    report_due,         \* of each report: enabled with next_run <= now
    tick_pc,            \* _check_and_run_reports: idle, running, done
    due_reports,        \* its local "reports"
    tick_i,             \* the position of its loop in due_reports
    ticks,              \* the ticks started so far
    runs,               \* the process_report calls started, in order
    mail_log,           \* the emails the runs sent, in order
    report_logs,        \* the run-log entries the runs wrote, in order
    \* ---- parse_dotnet_date and its caller
    parse_pc,           \* ready, done
    date_str,           \* the argument
    parsed,             \* what the call gave: a date, None, or an exception
    \* ---- sort_instances and the rows its argument is built from
    sort_pc,            \* rows, ready, done
    wf_rows,            \* the WorkflowInstance answers of one recipient's tasks
    user_instances,     \* the argument: instances_by_user[user_email]
    sort_order,         \* report.get('sort_order', ...)
    utc_now,            \* the clock is_overdue reads
    sorted_instances,    \* what the call gave: a list, or an exception
    \* ---- the clients built for a tenant and the requests they send
    hdr_pc,             \* tenant, client
    client_path,        \* the code path that builds the client
    tenant_single,      \* the tenant's stored is_single_instance: true, false, missing
    client_single,      \* self.is_single_instance
    requests,            \* the requests sent: endpoint and header names
    \* ---- one stored report through ticks, manual runs and edits, on two clocks
    utc_clock,          \* datetime.utcnow(), in hours
    utc_offset,         \* datetime.now() - datetime.utcnow(), in hours
    stored_report,      \* the report in reports.yaml: enabled, cron_schedule, next_run, last_run
    due_run,            \* the run in progress: its state and the report dict it read
    due_events,         \* selections, run starts and ends, edits, in order
    due_effects,         \* what the runs and tests did: remote calls, emails, run logs
    sched_running,      \* ReportScheduler.running
    aps,                \* self.scheduler: "none", "started" or "shutdown"
    polling_jobs,       \* the "check_reports" jobs of the schedulers that are started
    fire_pending,       \* a run of _check_and_run_reports submitted and not yet begun
    life_tick,          \* the run of _check_and_run_reports in progress
    life_log            \* start, stop, the ticks and the reports they process, in order

envVars   == <<rows, active, assigned, unreachable, members, group_outcome>>
argVars   == <<process_nos, workflow_flags, progress_callback, skip_user_expansion>>
queryVars == <<unique_process_nos, qi, instance_nos, result_rows, process_ids,
               all_instances, failed_processes, unique_instances>>
fetchVars == <<task, semaphore, waiters, instances_with_tokens, completed_count,
               progress, results>>
storeVars == <<config, now, cron_schedule, last_run, next_run, run_logs>>
adminVars == <<send_all_to_admin, admin_email>>
runVars   == <<instances_found, emails_sent, emails_failed, messages, instances_by_user,
               invalid_instances, email_messages, sent, failed, outbox, returned>>
reportVars == <<storeVars, adminVars, runVars>>
obsVars   == <<calls, printed>>
testVars  == <<variant, instances_data, preview>>
cacheVars == <<clock, process_cache, gap, clear_log>>
schedVars == <<report_due, tick_pc, due_reports, tick_i, ticks, runs, mail_log, report_logs>>
parseVars == <<parse_pc, date_str, parsed>>
sortVars  == <<sort_pc, wf_rows, user_instances, sort_order, utc_now, sorted_instances>>
hdrVars   == <<hdr_pc, client_path, tenant_single, client_single, requests>>
dueVars   == <<utc_clock, utc_offset, stored_report, due_run, due_events, due_effects>>
lifeVars  == <<sched_running, aps, polling_jobs, fire_pending, life_tick, life_log>>
otherVars == <<testVars, cacheVars, schedVars, parseVars, sortVars, hdrVars, dueVars, lifeVars>>
pipelineVars == <<pc, envVars, argVars, queryVars, fetchVars, reportVars, exception>>
vars      == <<pc, envVars, argVars, queryVars, fetchVars, reportVars, obsVars, exception,
               otherVars>>

----------------------------------------------------------------------------
(* Bounds of the model *)

MaxRows == 2
MaxScope == 2
MaxDedupLen == 4
MaxFetch == 4
MaxFanout == 11
MaxDepth == 4
MaxExpandRefs == 3

(* Program constants *)

RUNNING_INSTANCES == 1
FINISHED_INSTANCES == 2
ERROR_INSTANCES == 4
STATS_ACTIVE == 102
STATS_ERROR == 108
NoFlags == -1
SemaphoreLimit == 10
SINGLE_USER == 1
USER_GROUP == 2
SYSTEM_USER == 3

----------------------------------------------------------------------------
(* Helpers *)

Range(s) == {s[i] : i \in 1..Len(s)}

SeqsUpTo(S, n) == UNION {[1..k -> S] : k \in 0..n}

Perms(S) == {s \in [1..Cardinality(S) -> S] : Range(s) = S}

RECURSIVE Concat(_)
Concat(ss) == IF ss = <<>> THEN <<>> ELSE Head(ss) \o Concat(Tail(ss))

----------------------------------------------------------------------------
(* The remote system *)

Procs == {10, 20}

\* The (instance_no, token_no) rows a process can hold: one instance at two tokens.
ProcRefs(p) == {<<p \div 10, 0>>, <<p \div 10, 1>>}

\* The i-th of the refs a detail fetch is given: instance (i+1)/2 at token 1 or 0
FetchRef(i) == <<(i + 1) \div 2, i % 2>>

FetchRefs(n) == [i \in 1..n |-> FetchRef(i)]

\* instance numbers of the remote system
InstanceNos == 1..((MaxFanout + 2) \div 2)

\* users of the remote system
User(id, name, smtp, type, disabled) ==
    [user_id |-> id, display_name |-> name, smtp |-> smtp, user_type |-> type,
     disabled |-> disabled]

Alice == User(1, "Alice", "alice@x", SINGLE_USER, FALSE)
Bob == User(2, "Bob", "bob@x", SINGLE_USER, FALSE)
Carol == User(3, "Carol", "carol@x", SINGLE_USER, FALSE)
Dave == User(4, "Dave", "dave@x", SINGLE_USER, FALSE)
Erin == User(5, "Erin", "erin@x", SINGLE_USER, FALSE)
NoMail == User(6, "NoMail", "nomail", SINGLE_USER, FALSE)
Gone == User(7, "Gone", "gone@x", SINGLE_USER, TRUE)
Daemon == User(8, "Daemon", "daemon@x", SYSTEM_USER, FALSE)
GroupA == User(20, "GroupA", "", USER_GROUP, FALSE)
GroupB == User(21, "GroupB", "", USER_GROUP, FALSE)

\* the directory of the remote system
Directory == {Alice, Bob, Carol, Dave, Erin, NoMail, Gone, Daemon, GroupA, GroupB}

FlagValues == {NoFlags, RUNNING_INSTANCES, FINISHED_INSTANCES, ERROR_INSTANCES}

\* CountValue a process can have in statistics type 102 when the query is not
\* one of the running instances
OtherActiveCounts == {0, 1}

\* Statistics type 102 counts active instances: for a query of the running
\* instances it agrees with the rows, for a query of the finished or of the
\* error instances it is a count of something else.
IsRunningQuery(flags) == flags \in {NoFlags, RUNNING_INSTANCES}

\* How one _post can end:
\*   ok            HTTP 200, well-formed body
\*   http_error    HTTP error status or transport exception
\*   build_failed  HTTP error whose text holds "BuildWorkflowQuery failed"
\*   malformed     HTTP 200, body whose payload member is null
\*   wrong_type    HTTP error whose text holds "User has wrong type" (group lookups)
PostOutcomes == {"ok", "http_error", "build_failed", "malformed"}

\* _post returns None (it never raises)
PostReturnsNone(o) == o \in {"http_error", "build_failed", "wrong_type"}

\* _post prints the failure unless the text is one "handled gracefully by callers"
PostPrints(o) == o = "http_error"

Post(ep, arg, o) ==
    /\ calls' = Append(calls, [ep |-> ep, arg |-> arg, outcome |-> o])
    /\ printed' = IF PostPrints(o) THEN printed \cup {<<ep, arg>>} ELSE printed

\* CountValue of process p in a statistics response of the given type
StatsCount(type, p) == IF type = STATS_ERROR THEN Len(rows[p]) ELSE active[p]

\* ResultRows of a statistics response listing the processes in order ord
StatsRows(type, ord) ==
    [i \in 1..Len(ord) |-> [EntryNo |-> ord[i], CountValue |-> StatsCount(type, ord[i])]]

\* WorkflowQueryResultList of the bulk response: one result per process
BulkRows == Concat([i \in 1..2 |-> rows[10 * i]])

----------------------------------------------------------------------------
(* Pure parts of the client *)

NoneList == [none |-> TRUE, val |-> <<>>]
SomeList(s) == [none |-> FALSE, val |-> s]

\* rows with a falsy InstanceNo are skipped
ParseRows(rs) == SelectSeq(rs, LAMBDA r : r[1] # 0)

ExecuteWorkflowQueryForAll(o, body) ==
    IF PostReturnsNone(o) THEN NoneList ELSE SomeList(ParseRows(body))

ExecuteWorkflowQueryForProcess(o, body) ==
    IF PostReturnsNone(o) THEN <<>> ELSE ParseRows(body)

\* the bulk result tested for truth instead: an empty list counts as a failure
BulkSucceeded_truthy(instances) == ~instances.none /\ instances.val # <<>>

\* "if instances is not None: return instances"
BulkSucceeded(instances) == ~instances.none

StatsQueryType(flags) == IF flags = ERROR_INSTANCES THEN STATS_ERROR ELSE STATS_ACTIVE

\* the CountValue test left out
ActiveEntry_anyCount(entry) == entry.EntryNo # 0

\* process ids of the statistics rows with EntryNo and CountValue > 0, in order
ActiveEntry(entry) == entry.EntryNo # 0 /\ entry.CountValue > 0

StatsProcessIds(rs) ==
    LET kept == SelectSeq(rs, ActiveEntry)
    IN  [i \in 1..Len(kept) |-> kept[i].EntryNo]

\* _get_active_processes_from_stats always asks for type 102
PreFilterStatsType == STATS_ACTIVE

GetActiveProcessesFromStats(o) ==
    IF o = "ok"
    THEN SomeList(StatsProcessIds(StatsRows(PreFilterStatsType, <<10, 20>>)))
    ELSE NoneList

\* list(dict.fromkeys(process_nos)) and the seen-set loops
RECURSIVE DedupFrom(_, _)
DedupFrom(s, seen) ==
    IF s = <<>> THEN <<>>
    ELSE IF Head(s) \in seen THEN DedupFrom(Tail(s), seen)
    ELSE <<Head(s)>> \o DedupFrom(Tail(s), seen \cup {Head(s)})

Dedup(s) == DedupFrom(s, {})

\* unique_process_nos = list(dict.fromkeys(process_nos))
UniqueProcessNos(ps) == Dedup(ps)

\* the fallback's own "remove duplicates while preserving order"
FallbackUnique(insts) == Dedup(insts)

\* duplicates removed by instance_no alone
RECURSIVE DedupByInstanceNo(_, _)
DedupByInstanceNo(s, seen) ==
    IF s = <<>> THEN <<>>
    ELSE IF Head(s)[1] \in seen THEN DedupByInstanceNo(Tail(s), seen)
    ELSE <<Head(s)>> \o DedupByInstanceNo(Tail(s), seen \cup {Head(s)[1]})

UniqueInstances_byInstanceNo(insts) == DedupByInstanceNo(insts, {})

\* get_all_workflow_instances: "remove duplicates ... (instance_no + token_no)"
UniqueInstances(insts) == Dedup(insts)

----------------------------------------------------------------------------
(* Query stage of get_all_workflow_instances *)

GetAllStart ==
    /\ pc = "gawi"
    /\ IF process_nos # <<>>
       THEN /\ unique_process_nos' = UniqueProcessNos(process_nos)
            /\ pc' = "prefilter"
       ELSE /\ unique_process_nos' = unique_process_nos
            /\ pc' = "bulk"
    /\ UNCHANGED <<envVars, argVars, otherVars, fetchVars, reportVars, obsVars, qi, instance_nos, result_rows,
                   process_ids, all_instances, failed_processes, unique_instances>>
    /\ UNCHANGED exception

PreFilter ==
    /\ pc = "prefilter"
    /\ \E o \in PostOutcomes :
         LET active_processes == GetActiveProcessesFromStats(o)
             filtered == IF active_processes.none THEN unique_process_nos
                         ELSE SelectSeq(unique_process_nos,
                                        LAMBDA p : p \in Range(active_processes.val))
         IN  /\ Post("ExecuteStatisticsQuery", PreFilterStatsType, o)
             /\ unique_process_nos' = filtered
             /\ instance_nos' = <<>>
             /\ qi' = 1
             /\ pc' = IF filtered = <<>> THEN "dedup" ELSE "scope_query"
    /\ UNCHANGED <<envVars, argVars, otherVars, fetchVars, reportVars, result_rows, process_ids, all_instances,
                   failed_processes, unique_instances>>
    /\ UNCHANGED exception

ScopeQuery ==
    /\ pc = "scope_query"
    /\ \E o \in PostOutcomes :
         LET p == unique_process_nos[qi]
         IN  /\ Post("ExecuteWorkflowQueryForProcess", p, o)
             /\ IF o = "malformed"
                THEN /\ pc' = "raised"
                     /\ exception' = "AttributeError"
                     /\ UNCHANGED <<instance_nos, qi>>
                ELSE /\ instance_nos' = instance_nos \o ExecuteWorkflowQueryForProcess(o, rows[p])
                     /\ UNCHANGED exception
                     /\ qi' = qi + 1
                     /\ pc' = IF qi = Len(unique_process_nos) THEN "dedup" ELSE "scope_query"
    /\ UNCHANGED <<envVars, argVars, otherVars, fetchVars, reportVars, unique_process_nos, result_rows, process_ids,
                   all_instances, failed_processes, unique_instances>>

BulkQuery ==
    /\ pc = "bulk"
    /\ \E o \in PostOutcomes :
         LET instances == ExecuteWorkflowQueryForAll(o, BulkRows)
         IN  /\ Post("ExecuteWorkflowQueryForAll", 0, o)
             /\ IF o = "malformed"
                THEN /\ pc' = "raised"
                     /\ exception' = "AttributeError"
                     /\ UNCHANGED instance_nos
                ELSE IF BulkSucceeded(instances)
                THEN /\ instance_nos' = instances.val
                     /\ pc' = "dedup"
                     /\ UNCHANGED exception
                ELSE /\ pc' = "fb_stats"
                     /\ UNCHANGED <<instance_nos, exception>>
    /\ UNCHANGED <<envVars, argVars, otherVars, fetchVars, reportVars, unique_process_nos, qi, result_rows, process_ids,
                   all_instances, failed_processes, unique_instances>>

FallbackStats ==
    /\ pc = "fb_stats"
    /\ \E o \in PostOutcomes, ord \in Perms(Procs) :
         LET type == StatsQueryType(workflow_flags)
             ids == StatsProcessIds(StatsRows(type, ord))
         IN  /\ Post("ExecuteStatisticsQuery", type, o)
             /\ IF o = "malformed"
                THEN /\ pc' = "raised"
                     /\ exception' = "AttributeError"
                     /\ UNCHANGED <<instance_nos, result_rows, process_ids, qi, all_instances>>
                ELSE IF PostReturnsNone(o)
                THEN /\ instance_nos' = <<>>
                     /\ pc' = "dedup"
                     /\ UNCHANGED <<result_rows, process_ids, qi, all_instances, exception>>
                ELSE /\ result_rows' = StatsRows(type, ord)
                     /\ UNCHANGED exception
                     /\ process_ids' = ids
                     /\ qi' = 1
                     /\ all_instances' = <<>>
                     /\ IF ids = <<>>
                        THEN /\ instance_nos' = <<>>
                             /\ pc' = "dedup"
                        ELSE /\ pc' = "fb_proc"
                             /\ UNCHANGED instance_nos
    /\ UNCHANGED <<envVars, argVars, otherVars, fetchVars, reportVars, unique_process_nos, failed_processes, unique_instances>>

FallbackProcess ==
    /\ pc = "fb_proc"
    /\ \E o \in PostOutcomes :
         LET p == process_ids[qi]
             collected == IF o = "malformed" THEN all_instances
                          ELSE all_instances \o ExecuteWorkflowQueryForProcess(o, rows[p])
         IN  /\ Post("ExecuteWorkflowQueryForProcess", p, o)
             /\ failed_processes' = IF o = "malformed" THEN Append(failed_processes, p)
                                    ELSE failed_processes
             /\ all_instances' = collected
             /\ qi' = qi + 1
             /\ IF qi = Len(process_ids)
                THEN /\ instance_nos' = FallbackUnique(collected)
                     /\ pc' = "dedup"
                ELSE /\ pc' = "fb_proc"
                     /\ UNCHANGED instance_nos
    /\ UNCHANGED <<envVars, argVars, otherVars, fetchVars, reportVars, unique_process_nos, result_rows, process_ids,
                   unique_instances>>
    /\ UNCHANGED exception

DedupInstances ==
    /\ pc = "dedup"
    /\ unique_instances' = UniqueInstances(instance_nos)
    /\ pc' = "deduped"
    /\ UNCHANGED <<envVars, argVars, otherVars, fetchVars, reportVars, obsVars, unique_process_nos, qi, instance_nos,
                   result_rows, process_ids, all_instances, failed_processes>>
    /\ UNCHANGED exception

----------------------------------------------------------------------------
(* SpecQuery: one call of get_all_workflow_instances, up to the deduplicated *)
(* list of refs, for every scope, flag value and remote state of the bounds. *)

NoTime == -1

\* group ids of the remote system
GroupIds == {20, 21}

\* a remote system without groups
NoGroups ==
    /\ members = [g \in GroupIds |-> <<>>]
    /\ group_outcome = [g \in GroupIds |-> "ok"]

\* no report is being processed
\* no preview rendered
NoPreview == [user_email |-> "", instances |-> <<>>, recipient |-> ""]

\* process_report is the entry point, no test variant has run
TestIdle ==
    /\ variant = "process_report"
    /\ instances_data = <<>>
    /\ preview = NoPreview

\* tenant names; two tenant records can carry the same name
TenantNames == {"acme", "globex"}

NoEntry == [timestamp |-> -1, data |-> <<>>]

\* the cache is empty and nobody has called it
CacheIdle ==
    /\ clock = 0
    /\ process_cache = [n \in TenantNames |-> NoEntry]
    /\ gap = <<>>
    /\ clear_log = <<>>

\* the reports of the store
Reports == {1, 2}

\* the scheduler has not ticked, nobody has started a run
SchedIdle ==
    /\ report_due = [r \in Reports |-> FALSE]
    /\ tick_pc = "idle"
    /\ due_reports = <<>>
    /\ tick_i = 1
    /\ ticks = 0
    /\ runs = <<>>
    /\ mail_log = <<>>
    /\ report_logs = <<>>

\* a date string as the parser sees it: the form it has and the numbers in it
\* (times in units of 1000 seconds since the epoch, n in units of 10^6 ms)
NullDate == [form |-> "null", n |-> 0, tz |-> ""]

\* the outcome of a call that has not been made
NoOutcome == [raised |-> FALSE, kind |-> "pending", t |-> 0]

ParseIdle ==
    /\ parse_pc = "ready"
    /\ date_str = NullDate
    /\ parsed = NoOutcome

NoList == [raised |-> FALSE, value |-> <<>>]

SortIdle ==
    /\ sort_pc = "rows"
    /\ wf_rows = <<>>
    /\ user_instances = <<>>
    /\ sort_order = "task_due_date"
    /\ utc_now = 0
    /\ sorted_instances = NoList

HdrIdle ==
    /\ hdr_pc = "tenant"
    /\ client_path = "report_run"
    /\ tenant_single = "false"
    /\ client_single = FALSE
    /\ requests = <<>>

NoRun == [state |-> "idle", origin |-> "", cron_schedule |-> 0]

NoEffects == [remote_calls |-> 0, emails |-> 0, run_logs |-> 0]

DueIdle ==
    /\ utc_clock = 0
    /\ utc_offset = 0
    /\ stored_report = [enabled |-> FALSE, cron_schedule |-> 0, next_run |-> -1, last_run |-> -1]
    /\ due_run = NoRun
    /\ due_events = <<>>
    /\ due_effects = NoEffects

NoTick == [id |-> 0, left |-> 0]

LifeIdle ==
    /\ sched_running = FALSE
    /\ aps = "none"
    /\ polling_jobs = 0
    /\ fire_pending = FALSE
    /\ life_tick = NoTick
    /\ life_log = <<>>

OtherIdle == TestIdle /\ CacheIdle /\ SchedIdle /\ ParseIdle /\ SortIdle /\ HdrIdle /\ DueIdle /\ LifeIdle

StoresIdle ==
    /\ config = "ok"
    /\ now = 0
    /\ cron_schedule = 0
    /\ last_run = NoTime
    /\ next_run = NoTime
    /\ run_logs = <<>>
    /\ send_all_to_admin = FALSE
    /\ admin_email = ""
    /\ instances_found = 0
    /\ emails_sent = 0
    /\ emails_failed = 0
    /\ messages = <<>>
    /\ instances_by_user = <<>>
    /\ invalid_instances = <<>>
    /\ email_messages = <<>>
    /\ sent = 0
    /\ failed = 0
    /\ outbox = <<>>
    /\ returned = "nothing"
    /\ exception = ""

ReportIdle == OtherIdle /\ StoresIdle

FetchLocalsInit ==
    /\ task = <<>>
    /\ semaphore = 0
    /\ waiters = <<>>
    /\ instances_with_tokens = <<>>
    /\ completed_count = 0
    /\ progress = <<>>
    /\ results = <<>>

QueryLocalsInit ==
    /\ unique_process_nos = <<>>
    /\ qi = 1
    /\ instance_nos = <<>>
    /\ result_rows = <<>>
    /\ process_ids = <<>>
    /\ all_instances = <<>>
    /\ failed_processes = <<>>
    /\ unique_instances = <<>>
    /\ calls = <<>>
    /\ printed = {}

InitQuery ==
    /\ pc = "gawi"
    /\ process_nos \in SeqsUpTo(Procs, MaxScope)
    /\ workflow_flags \in FlagValues
    /\ rows \in [Procs -> UNION {SeqsUpTo(ProcRefs(p), MaxRows) : p \in Procs}]
    /\ \A p \in Procs : Range(rows[p]) \subseteq ProcRefs(p)
    /\ active \in [Procs -> 0..MaxRows]
    /\ \A p \in Procs :
         IF IsRunningQuery(workflow_flags)
         THEN active[p] = Len(rows[p])
         ELSE active[p] \in OtherActiveCounts
    /\ assigned = [n \in InstanceNos |-> <<>>]
    /\ unreachable = {}
    /\ progress_callback = FALSE
    /\ skip_user_expansion = FALSE
    /\ NoGroups
    /\ QueryLocalsInit
    /\ FetchLocalsInit
    /\ ReportIdle

NextQuery ==
    \/ GetAllStart
    \/ PreFilter
    \/ ScopeQuery
    \/ BulkQuery
    \/ FallbackStats
    \/ FallbackProcess
    \/ DedupInstances

SpecQuery == InitQuery /\ [][NextQuery]_vars

----------------------------------------------------------------------------
(* SpecDedup: the deduplication of get_all_workflow_instances applied to     *)
(* every list of refs of the bounds.                                         *)

DedupRefs == {<<1, 0>>, <<1, 1>>, <<2, 0>>}

InitDedup ==
    /\ pc = "dedup"
    /\ process_nos = <<>>
    /\ workflow_flags = NoFlags
    /\ rows = [p \in Procs |-> <<>>]
    /\ active = [p \in Procs |-> 0]
    /\ assigned = [n \in InstanceNos |-> <<>>]
    /\ unreachable = {}
    /\ progress_callback = FALSE
    /\ skip_user_expansion = FALSE
    /\ NoGroups
    /\ FetchLocalsInit
    /\ ReportIdle
    /\ unique_process_nos = <<>>
    /\ qi = 1
    /\ instance_nos \in SeqsUpTo(DedupRefs, MaxDedupLen)
    /\ result_rows = <<>>
    /\ process_ids = <<>>
    /\ all_instances = <<>>
    /\ failed_processes = <<>>
    /\ unique_instances = <<>>
    /\ calls = <<>>
    /\ printed = {}

NextDedup == DedupInstances

SpecDedup == InitDedup /\ [][NextDedup]_vars

----------------------------------------------------------------------------
(* Detail fetch of get_all_workflow_instances: asyncio.gather over one      *)
(* fetch_instance task per ref, under asyncio.Semaphore(10)                 *)

NoInstance == [found |-> FALSE, instance_no |-> 0, assigned_to_users |-> <<>>]

\* get_workflow_instance: None when _post gave nothing, else the detail
GetWorkflowInstance(o, instance_no) ==
    IF PostReturnsNone(o) THEN NoInstance
    ELSE [found |-> TRUE, instance_no |-> instance_no,
          assigned_to_users |-> assigned[instance_no]]

\* how the GetWorkflowInstance request for an instance ends
DetailOutcome(instance_no) == IF instance_no \in unreachable THEN "http_error" ELSE "ok"

\* the slot taken without looking at the semaphore
SemaphoreLocked_never == FALSE

\* Semaphore.locked(): no slot, or somebody is queued already
SemaphoreLocked == semaphore = 0 \/ waiters # <<>>

InFlight == {i \in 1..Len(task) : task[i] = "fetching"}

\* get_users_from_group without the test of "Disabled"
GetUsersFromGroup_keepsDisabled(group_id) ==
    IF PostReturnsNone(group_outcome[group_id]) THEN <<>>
    ELSE [k \in 1..Len(members[group_id]) |-> [members[group_id][k] EXCEPT !.disabled = FALSE]]

\* get_users_from_group: nothing when _post gave nothing, else the entries that
\* are not Disabled, each built with disabled=False
GetUsersFromGroup(group_id) ==
    IF PostReturnsNone(group_outcome[group_id]) THEN <<>>
    ELSE LET enabled == SelectSeq(members[group_id], LAMBDA u : ~u.disabled)
         IN  [k \in 1..Len(enabled) |-> [enabled[k] EXCEPT !.disabled = FALSE]]

NothingExpanded == [val |-> <<>>, groups |-> <<>>, overflow |-> FALSE]

\* _expand_users(users, result) called at recursion depth `depth`: val is what
\* it appends to result, groups the group lookups it makes, overflow whether
\* the recursion passed the interpreter's limit (RecursionError)
RECURSIVE ExpandFrom(_, _)
ExpandFrom(users, depth) ==
    IF users = <<>> THEN NothingExpanded
    ELSE LET user == Head(users)
             first ==
                 IF user.user_type = USER_GROUP
                 THEN IF depth >= MaxDepth
                      THEN [val |-> <<>>, groups |-> <<>>, overflow |-> TRUE]
                      ELSE LET sub == ExpandFrom(GetUsersFromGroup(user.user_id), depth + 1)
                           IN  [sub EXCEPT !.groups = <<user.user_id>> \o sub.groups]
                 ELSE IF user.user_type = SINGLE_USER /\ ~user.disabled
                 THEN [val |-> <<user>>, groups |-> <<>>, overflow |-> FALSE]
                 ELSE NothingExpanded
         IN  IF first.overflow THEN first
             ELSE LET rest == ExpandFrom(Tail(users), depth)
                  IN  [val |-> first.val \o rest.val, groups |-> first.groups \o rest.groups,
                       overflow |-> rest.overflow]

\* groups left unexpanded
ExpandUsers_flat(users) ==
    [val |-> SelectSeq(users, LAMBDA u : u.user_type = SINGLE_USER /\ ~u.disabled),
     groups |-> <<>>, overflow |-> FALSE]

\* all_users = []; await self._expand_users(instance.assigned_to_users, all_users)
ExpandUsers(users) == ExpandFrom(users, 0)

\* the f-string of InstanceForUser.twa_url, as the list of its parts
TwaUrl_viewer(instance_no, token_no) == <<"base_url", "/Viewer.aspx?InstanceNo=", instance_no>>

TwaUrl(instance_no, token_no) ==
    <<"base_url", "/tdwv/#/workflows/instance/", instance_no, "/", token_no>>

InstanceForUser(instance, user, token_no) ==
    [instance_no |-> instance.instance_no, token_no |-> token_no,
     user_id |-> user.user_id, user_display_name |-> user.display_name,
     user_smtp |-> user.smtp,
     twa_url |-> TwaUrl(instance.instance_no, token_no)]

\* user_id=0, user_display_name="SYSTEM", user_smtp=""
SystemPseudoUser == [user_id |-> 0, display_name |-> "SYSTEM", smtp |-> ""]

\* the expansion done whatever skip_user_expansion says
RowsOf_expandsAlways(fetched) ==
    IF ~fetched.instance.found THEN <<>>
    ELSE LET all_users == ExpandUsers(fetched.instance.assigned_to_users).val
         IN  [k \in 1..Len(all_users) |->
                 InstanceForUser(fetched.instance, all_users[k], fetched.token_no)]

\* rows of one gathered (instance, token_no): none for a failed fetch, one
\* SYSTEM row when the expansion is skipped, else one per expanded user
RowsOf(fetched) ==
    IF ~fetched.instance.found THEN <<>>
    ELSE IF skip_user_expansion
    THEN <<InstanceForUser(fetched.instance, SystemPseudoUser, fetched.token_no)>>
    ELSE LET all_users == ExpandUsers(fetched.instance.assigned_to_users).val
             kept == SelectSeq(all_users,
                               LAMBDA u : u.user_type = SINGLE_USER /\ ~u.disabled)
         IN  [k \in 1..Len(kept) |-> InstanceForUser(fetched.instance, kept[k], fetched.token_no)]

\* what the expansion of one gathered (instance, token_no) does besides its rows
ExpansionOf(fetched) ==
    IF ~fetched.instance.found \/ skip_user_expansion THEN NothingExpanded
    ELSE ExpandUsers(fetched.instance.assigned_to_users)

\* the index of the first gathered result whose expansion overflows, 0 if none
FirstOverflow(fetched) ==
    LET over == {i \in 1..Len(fetched) : ExpansionOf(fetched[i]).overflow}
    IN  IF over = {} THEN 0 ELSE CHOOSE i \in over : \A j \in over : i <= j

\* the GetUsersFromGroup calls of the first n expansions, in order
GroupLookups(fetched, n) ==
    LET ids == Concat([i \in 1..n |-> ExpansionOf(fetched[i]).groups])
    IN  [k \in 1..Len(ids) |-> [ep |-> "GetUsersFromGroup", arg |-> ids[k],
                                outcome |-> group_outcome[ids[k]]]]

\* the loop over the gathered results left at the first failed fetch
RECURSIVE Flatten_stopAtFailure(_)
Flatten_stopAtFailure(fetched) ==
    IF fetched = <<>> THEN <<>>
    ELSE IF ~Head(fetched).instance.found THEN <<>>
    ELSE RowsOf(Head(fetched)) \o Flatten_stopAtFailure(Tail(fetched))

\* "for instance, token_no in instances_with_tokens: if not instance: continue"
Flatten(fetched) == Concat([i \in 1..Len(fetched) |-> RowsOf(fetched[i])])

\* tasks = [fetch_instance(no, token) for no, token in instance_nos]
CreateTasks ==
    /\ pc = "deduped"
    /\ task' = [i \in 1..Len(unique_instances) |-> "created"]
    /\ semaphore' = SemaphoreLimit
    /\ waiters' = <<>>
    /\ instances_with_tokens' = [i \in 1..Len(unique_instances) |->
                                   [instance |-> NoInstance, token_no |-> 0]]
    /\ completed_count' = 0
    /\ pc' = "fetching"
    /\ UNCHANGED <<envVars, argVars, otherVars, queryVars, reportVars, obsVars, progress, results>>
    /\ UNCHANGED exception

\* the task holds a slot and sends its GetWorkflowInstance request
SendDetailRequest(i) ==
    /\ task' = [task EXCEPT ![i] = "fetching"]
    /\ semaphore' = semaphore - 1
    /\ Post("GetWorkflowInstance", unique_instances[i][1],
            DetailOutcome(unique_instances[i][1]))

\* first step of a task: "async with semaphore", tasks start in creation order
EnterSemaphore(i) ==
    /\ pc = "fetching"
    /\ task[i] = "created"
    /\ \A j \in 1..(i - 1) : task[j] # "created"
    /\ IF SemaphoreLocked
       THEN /\ task' = [task EXCEPT ![i] = "waiting"]
            /\ waiters' = Append(waiters, i)
            /\ UNCHANGED <<semaphore, obsVars>>
       ELSE /\ SendDetailRequest(i)
            /\ UNCHANGED waiters
    /\ UNCHANGED <<pc, envVars, argVars, otherVars, queryVars, reportVars, instances_with_tokens,
                   completed_count, progress, results>>
    /\ UNCHANGED exception

\* a released slot goes to the head of the queue
WakeWaiter ==
    /\ pc = "fetching"
    /\ waiters # <<>>
    /\ semaphore > 0
    /\ SendDetailRequest(Head(waiters))
    /\ waiters' = Tail(waiters)
    /\ UNCHANGED <<pc, envVars, argVars, otherVars, queryVars, reportVars, instances_with_tokens,
                   completed_count, progress, results>>
    /\ UNCHANGED exception

\* the token paired with the detail that completes next, whatever its ref
GatheredToken_byCompletion(i) == unique_instances[completed_count + 1][2]

\* "return instance, token_no": the token_no the task was created with
GatheredToken(i) == unique_instances[i][2]

\* the position of the task among the tasks created
CompletedCount_atSubmission(i) == i

\* "completed_count += 1", then the value is passed to progress_callback: no
\* await stands between the two
CompletedCount(i) == completed_count + 1

\* get_workflow_instance returns: count, report progress, release the slot
FetchReturns(i) ==
    /\ pc = "fetching"
    /\ task[i] = "fetching"
    /\ LET instance_no == unique_instances[i][1]
           token_no == GatheredToken(i)
           o == DetailOutcome(instance_no)
       IN  /\ instances_with_tokens' =
                  [instances_with_tokens EXCEPT
                      ![i] = [instance |-> GetWorkflowInstance(o, instance_no),
                              token_no |-> token_no]]
           /\ completed_count' = completed_count + 1
           /\ progress' = IF progress_callback
                          THEN Append(progress, [completed |-> CompletedCount(i),
                                                 total |-> Len(unique_instances),
                                                 instance_no |-> instance_no])
                          ELSE progress
    /\ task' = [task EXCEPT ![i] = "done"]
    /\ semaphore' = semaphore + 1
    /\ UNCHANGED <<pc, envVars, argVars, otherVars, queryVars, reportVars, obsVars, waiters, results>>
    /\ UNCHANGED exception

\* gather is complete: expand, flatten, return results
FlattenResults ==
    /\ pc = "fetching"
    /\ \A i \in 1..Len(task) : task[i] = "done"
    /\ LET over == FirstOverflow(instances_with_tokens)
           lookups == GroupLookups(instances_with_tokens,
                                   IF over = 0 THEN Len(instances_with_tokens) ELSE over)
       IN  /\ calls' = calls \o lookups
           /\ printed' = printed \cup {<<c.ep, c.arg>> : c \in {d \in Range(lookups) : PostPrints(d.outcome)}}
           /\ IF over = 0
              THEN /\ results' = Flatten(instances_with_tokens)
                   /\ pc' = "returned"
                   /\ UNCHANGED exception
              ELSE /\ pc' = "raised"
                   /\ exception' = "RecursionError"
                   /\ UNCHANGED results
    /\ UNCHANGED <<envVars, argVars, otherVars, queryVars, reportVars, task, semaphore, waiters,
                   instances_with_tokens, completed_count, progress>>

NextFetch ==
    \/ CreateTasks
    \/ \E i \in 1..Len(task) : EnterSemaphore(i)
    \/ WakeWaiter
    \/ \E i \in 1..Len(task) : FetchReturns(i)
    \/ FlattenResults

\* InitFetch: the detail fetch of up to MaxFetch refs, with a progress callback,
\* for every assignment of users and every set of unreachable instances.
AssignedChoices == {<<>>, <<Alice>>, <<Alice, Bob>>}

FetchInstanceNos == 1..((MaxFetch + 1) \div 2)

InitFetch ==
    /\ pc = "deduped"
    /\ process_nos = <<>>
    /\ workflow_flags = NoFlags
    /\ rows = [p \in Procs |-> <<>>]
    /\ active = [p \in Procs |-> 0]
    /\ unique_process_nos = <<>>
    /\ qi = 1
    /\ instance_nos = <<>>
    /\ result_rows = <<>>
    /\ process_ids = <<>>
    /\ all_instances = <<>>
    /\ failed_processes = <<>>
    /\ \E n \in 0..MaxFetch : unique_instances = FetchRefs(n)
    /\ calls = <<>>
    /\ printed = {}
    /\ \E f \in [FetchInstanceNos -> AssignedChoices] :
         assigned = [n \in InstanceNos |-> IF n \in FetchInstanceNos THEN f[n] ELSE <<>>]
    /\ unreachable \in SUBSET FetchInstanceNos
    /\ progress_callback = TRUE
    /\ skip_user_expansion = FALSE
    /\ NoGroups
    /\ FetchLocalsInit
    /\ ReportIdle

\* InitFanout: the detail fetch of up to MaxFanout refs, more than the
\* semaphore admits at once.
InitFanout ==
    /\ pc = "deduped"
    /\ process_nos = <<>>
    /\ workflow_flags = NoFlags
    /\ rows = [p \in Procs |-> <<>>]
    /\ active = [p \in Procs |-> 0]
    /\ unique_process_nos = <<>>
    /\ qi = 1
    /\ instance_nos = <<>>
    /\ result_rows = <<>>
    /\ process_ids = <<>>
    /\ all_instances = <<>>
    /\ failed_processes = <<>>
    /\ \E n \in 0..MaxFanout : unique_instances = FetchRefs(n)
    /\ calls = <<>>
    /\ printed = {}
    /\ assigned = [n \in InstanceNos |-> <<Alice>>]
    /\ unreachable \in {{}, {1}}
    /\ progress_callback = FALSE
    /\ skip_user_expansion = FALSE
    /\ NoGroups
    /\ FetchLocalsInit
    /\ ReportIdle

\* SpecFetch: one detail fetch.  Every request ends (the HTTP client's timeout)
\* and the event loop runs every task that can run.
SpecFetch == (InitFetch \/ InitFanout) /\ [][NextFetch]_vars /\ WF_vars(NextFetch)

\* SpecExpand: the detail fetch and the expansion of up to MaxExpandRefs refs,
\* with and without skip_user_expansion, for membership graphs that nest,
\* that contain themselves, and whose lookups fail.
ExpandAssigned1 == {<<>>, <<Alice, GroupA>>, <<GroupA, Gone>>, <<GroupB, Daemon>>}

ExpandAssigned2 == {<<Bob>>, <<GroupB>>}

MemberChoices == {<<>>, <<Bob, Gone>>, <<GroupA>>, <<GroupB, Carol>>, <<Daemon, Alice>>}

GroupOutcomes == {"ok", "wrong_type", "http_error"}

InitExpand ==
    /\ pc = "deduped"
    /\ process_nos = <<>>
    /\ workflow_flags = NoFlags
    /\ rows = [p \in Procs |-> <<>>]
    /\ active = [p \in Procs |-> 0]
    /\ unique_process_nos = <<>>
    /\ qi = 1
    /\ instance_nos = <<>>
    /\ result_rows = <<>>
    /\ process_ids = <<>>
    /\ all_instances = <<>>
    /\ failed_processes = <<>>
    /\ \E n \in 0..MaxExpandRefs : unique_instances = FetchRefs(n)
    /\ calls = <<>>
    /\ printed = {}
    /\ \E a1 \in ExpandAssigned1, a2 \in ExpandAssigned2 :
         assigned = [n \in InstanceNos |-> IF n = 1 THEN a1 ELSE IF n = 2 THEN a2 ELSE <<>>]
    /\ unreachable \in {{}, {2}}
    /\ members \in [GroupIds -> MemberChoices]
    /\ group_outcome \in [GroupIds -> GroupOutcomes]
    /\ group_outcome[20] # "http_error"
    /\ group_outcome[21] # "wrong_type"
    /\ progress_callback = FALSE
    /\ skip_user_expansion \in BOOLEAN
    /\ FetchLocalsInit
    /\ ReportIdle

\* with fewer than ten refs no task waits for the semaphore
NextExpand ==
    \/ CreateTasks
    \/ \E i \in 1..Len(task) : EnterSemaphore(i)
    \/ \E i \in 1..Len(task) : FetchReturns(i)
    \/ FlattenResults

SpecExpand == InitExpand /\ [][NextExpand]_vars

----------------------------------------------------------------------------
(* process_report: configuration checks, query, grouping, rendering,        *)
(* sending, schedule update and run log                                     *)

\* what the configuration lookups can find
ConfigStates == {"ok", "no_report", "disabled", "no_tenant", "tenant_inactive",
                 "no_template", "no_smtp"}

\* the strings that hold an "@"
AddressesWithAt == {"alice@x", "Alice@x", "bob@x", "carol@x", "dave@x", "erin@x", "gone@x",
                    "daemon@x", "admin@x"}

\* any address that is not empty taken as valid
HasValidEmail_nonEmpty(instance) == instance.user_smtp # ""

\* "instance.user_smtp and '@' in instance.user_smtp"
HasValidEmail(instance) == instance.user_smtp # "" /\ instance.user_smtp \in AddressesWithAt

\* instances_by_user: one group per address, in order of first appearance; the
\* rows carry no dates, and sort_instances is stable
GroupByUser(instances) ==
    LET valid == SelectSeq(instances, HasValidEmail)
        emails == Dedup([i \in 1..Len(valid) |-> valid[i].user_smtp])
    IN  [g \in 1..Len(emails) |->
            [user_email |-> emails[g],
             instances |-> SelectSeq(valid, LAMBDA r : r.user_smtp = emails[g])]]

InvalidInstances(instances) == SelectSeq(instances, LAMBDA r : ~HasValidEmail(r))

\* f"Warning: {len(invalid_instances)} instances without valid email"
InvalidWarning(invalid) ==
    "Warning: " \o ToString(Len(invalid)) \o " instances without valid email"

\* "if report.get('send_all_to_admin') and report.get('admin_email')"
Recipient(user_email) ==
    IF send_all_to_admin /\ admin_email # "" THEN admin_email ELSE user_email

EmailMessage(group) ==
    [to_address |-> Recipient(group.user_email),
     user_display_name |-> group.instances[1].user_display_name,
     instances |-> group.instances]

\* croniter(cron_schedule, now).get_next(): the first occurrence after t of a
\* schedule firing at the multiples of cron; an expression croniter rejects is 0
CronValid(cron) == cron > 0

CronNext(cron, t) == ((t \div cron) + 1) * cron

\* what _update_report_schedule adds to self.messages
ScheduleMessages == IF CronValid(cron_schedule) THEN <<>> ELSE <<"Could not calculate next run">>

UpdateReportSchedule ==
    /\ last_run' = now
    /\ next_run' = IF CronValid(cron_schedule) THEN CronNext(cron_schedule, now) ELSE NoTime

\* "; ".join(self.messages)
RECURSIVE JoinMessages(_)
JoinMessages(msgs) ==
    IF msgs = <<>> THEN ""
    ELSE IF Len(msgs) = 1 THEN msgs[1]
    ELSE msgs[1] \o "; " \o JoinMessages(Tail(msgs))

AddRunLog(status, message, found, n_sent, n_failed) ==
    run_logs' = Append(run_logs, [status |-> status, message |-> message,
                                  instances_found |-> found,
                                  emails_sent |-> n_sent, emails_failed |-> n_failed])

\* the error text without the exception's own text
ErrorMsg_generic(e) == "Error processing report"

\* error_msg = f"Error processing report: {str(e)}"
ErrorMsg(e) == "Error processing report: " \o e

\* the default SMTP configuration not looked at
ConfigOk_withoutSmtpCheck(c) == c \in {"ok", "no_smtp"}

\* none of the five early returns of process_report is taken
ConfigOk(c) == c = "ok"

\* the message of the early return taken; the report is number 7, "Weekly"
ConfigMessage(c) ==
    CASE c = "no_report" -> "Report 7 not found"
      [] c = "disabled" -> "Report Weekly is disabled"
      [] c \in {"no_tenant", "tenant_inactive"} -> "Tenant for report Weekly not found or inactive"
      [] c = "no_template" -> "Template for report Weekly not found"
      [] c = "no_smtp" -> "No default SMTP configuration found"

\* every run classed as a success
RunStatus_alwaysSuccess(n_sent, n_failed) == "success"

\* status = "success" if failed == 0 else ("partial" if sent > 0 else "error")
RunStatus(n_sent, n_failed) ==
    IF n_failed = 0 THEN "success" ELSE IF n_sent > 0 THEN "partial" ELSE "error"

\* entry of process_report up to the call of get_all_workflow_instances
ProcessReport ==
    /\ pc = "idle"
    /\ variant = "process_report"
    /\ instances_found' = 0
    /\ emails_sent' = 0
    /\ emails_failed' = 0
    /\ IF ~ConfigOk(config)
       THEN /\ messages' = <<ConfigMessage(config)>>
            /\ returned' = "False"
            /\ pc' = "done"
       ELSE /\ messages' = <<>>
            /\ pc' = "gawi"
            /\ UNCHANGED returned
    /\ UNCHANGED <<envVars, argVars, otherVars, queryVars, fetchVars, storeVars, obsVars, send_all_to_admin,
                   admin_email, instances_by_user, invalid_instances, email_messages, sent,
                   failed, outbox>>
    /\ UNCHANGED exception

\* each message handed to the mail server as soon as it is rendered
SentBeforeRaise_eachWhenRendered(rendered) ==
    [i \in 1..Len(rendered) |-> [to_address |-> rendered[i].to_address, delivered |-> TRUE]]

\* what has been sent when the rendering of a group raises: send_bulk is
\* called after the loop over the groups, so nothing
SentBeforeRaise(rendered) == <<>>

\* the empty run returning before the schedule is touched
NoInstancesFound_scheduleKept ==
    /\ UNCHANGED <<last_run, next_run>>
    /\ AddRunLog("success", "No workflow instances found", 0, 0, 0)
    /\ returned' = "True"

\* "if not instances": the schedule is still moved on, the run is logged as
\* a success with no instance and no email, and process_report returns True
NoInstancesFound ==
    /\ UpdateReportSchedule
    /\ AddRunLog("success", "No workflow instances found", 0, 0, 0)
    /\ returned' = "True"

\* from the return of get_all_workflow_instances to the call of send_bulk; the
\* rendering of any group can raise
GroupAndRender ==
    /\ pc = "returned"
    /\ variant = "process_report"
    /\ instances_found' = Len(results)
    /\ IF results = <<>>
       THEN /\ NoInstancesFound
            /\ messages' = messages \o <<"Found instances">> \o ScheduleMessages
            /\ pc' = "done"
            /\ UNCHANGED <<instances_by_user, invalid_instances, email_messages, exception, outbox>>
       ELSE LET groups == GroupByUser(results)
                invalid == InvalidInstances(results)
            IN  /\ instances_by_user' = groups
                /\ invalid_instances' = invalid
                /\ messages' = messages \o <<"Found instances", "Grouped">>
                                   \o (IF invalid # <<>> THEN <<InvalidWarning(invalid)>>
                                       ELSE <<>>)
                /\ \E raising \in 0..Len(groups) :
                     IF raising = 0
                     THEN /\ email_messages' = [g \in 1..Len(groups) |-> EmailMessage(groups[g])]
                          /\ pc' = "emailing"
                          /\ UNCHANGED <<exception, outbox>>
                     ELSE /\ email_messages' = [g \in 1..(raising - 1) |-> EmailMessage(groups[g])]
                          /\ pc' = "raised"
                          /\ exception' = "Template rendering error"
                          /\ outbox' = outbox \o SentBeforeRaise(email_messages')
                /\ UNCHANGED <<last_run, next_run, run_logs, returned>>
    /\ sent' = 0
    /\ failed' = 0
    /\ UNCHANGED <<envVars, argVars, otherVars, queryVars, fetchVars, obsVars, config, now, cron_schedule,
                   send_all_to_admin, admin_email, emails_sent, emails_failed>>

\* the loop given up at the first failed send
SendBulkDone_stopAtFailure == Len(outbox) = Len(email_messages) \/ failed > 0

\* "for i, message in enumerate(messages)" has gone through every message
SendBulkDone == Len(outbox) = Len(email_messages)

\* one turn of send_bulk's loop: EmailService.send gives True or False
SendEmail ==
    /\ pc = "emailing"
    /\ ~SendBulkDone
    /\ \E delivered \in BOOLEAN :
         /\ outbox' = Append(outbox, [to_address |-> email_messages[Len(outbox) + 1].to_address,
                                      delivered |-> delivered])
         /\ sent' = IF delivered THEN sent + 1 ELSE sent
         /\ failed' = IF delivered THEN failed ELSE failed + 1
    /\ UNCHANGED <<pc, envVars, argVars, otherVars, queryVars, fetchVars, storeVars, obsVars,
                   send_all_to_admin, admin_email, instances_found, emails_sent, emails_failed,
                   messages, instances_by_user, invalid_instances, email_messages, returned>>
    /\ UNCHANGED exception

\* send_bulk returned: counts, schedule, run log
FinishRun ==
    /\ pc = "emailing"
    /\ SendBulkDone
    /\ emails_sent' = sent
    /\ emails_failed' = failed
    /\ UpdateReportSchedule
    /\ messages' = messages \o <<"Emails sent">> \o ScheduleMessages
    /\ AddRunLog(RunStatus(sent, failed), JoinMessages(messages'), instances_found, sent, failed)
    /\ returned' = IF failed = 0 THEN "True" ELSE "False"
    /\ pc' = "done"
    /\ UNCHANGED <<envVars, argVars, otherVars, queryVars, fetchVars, obsVars, config, now, cron_schedule,
                   send_all_to_admin, admin_email, instances_found, instances_by_user,
                   invalid_instances, email_messages, sent, failed, outbox>>
    /\ UNCHANGED exception

\* "except Exception as e": the error is logged, nothing else
HandleException ==
    /\ pc = "raised"
    /\ variant = "process_report"
    /\ messages' = Append(messages, ErrorMsg(exception))
    /\ AddRunLog("error", ErrorMsg(exception), 0, 0, 0)
    /\ returned' = "False"
    /\ pc' = "done"
    /\ UNCHANGED <<envVars, argVars, otherVars, queryVars, fetchVars, obsVars, config, now, cron_schedule,
                   last_run, next_run, send_all_to_admin, admin_email, instances_found,
                   emails_sent, emails_failed, instances_by_user, invalid_instances,
                   email_messages, sent, failed, outbox>>
    /\ UNCHANGED exception

\* Spec: one run of process_report, for every configuration, scope, schedule
\* and remote state of the sets below
ReportScopes == {<<>>, <<10>>, <<10, 20>>}

ReportRows(p) == {<<>>, <<<<p \div 10, 0>>>>}

ReportAssigned == {<<Alice>>, <<Bob, NoMail>>, <<Alice, Bob, Carol, Dave, Erin>>}

AdminChoices == {<<FALSE, "">>, <<TRUE, "admin@x">>}

StartTimes == {5, 6}

CronChoices == {0, 3}

Init ==
    /\ pc = "idle"
    /\ config \in ConfigStates
    /\ now \in StartTimes
    /\ cron_schedule \in CronChoices
    /\ last_run = NoTime
    /\ next_run = now
    /\ run_logs = <<>>
    /\ \E a \in AdminChoices : send_all_to_admin = a[1] /\ admin_email = a[2]
    /\ process_nos \in ReportScopes
    /\ workflow_flags = NoFlags
    /\ rows \in [Procs -> UNION {ReportRows(p) : p \in Procs}]
    /\ \A p \in Procs : rows[p] \in ReportRows(p)
    /\ active = [p \in Procs |-> Len(rows[p])]
    /\ \E f \in [1..2 -> ReportAssigned] :
         assigned = [n \in InstanceNos |-> IF n \in 1..2 THEN f[n] ELSE <<>>]
    /\ unreachable \in {{}, {1}}
    /\ progress_callback = TRUE
    /\ skip_user_expansion = FALSE
    /\ NoGroups
    /\ QueryLocalsInit
    /\ FetchLocalsInit
    /\ instances_found = 0
    /\ emails_sent = 0
    /\ emails_failed = 0
    /\ messages = <<>>
    /\ instances_by_user = <<>>
    /\ invalid_instances = <<>>
    /\ email_messages = <<>>
    /\ sent = 0
    /\ failed = 0
    /\ outbox = <<>>
    /\ returned = "nothing"
    /\ exception = ""
    /\ OtherIdle

\* with fewer than ten refs no task waits for the semaphore
Next ==
    \/ ProcessReport
    \/ NextQuery
    \/ CreateTasks
    \/ \E i \in 1..Len(task) : EnterSemaphore(i)
    \/ \E i \in 1..Len(task) : FetchReturns(i)
    \/ FlattenResults
    \/ GroupAndRender
    \/ SendEmail
    \/ FinishRun
    \/ HandleException

Spec == Init /\ [][Next]_vars

\* SpecDeliver: process_report from the return of get_all_workflow_instances,
\* for every list of up to MaxResults assignments of the rows below and every
\* setting of the two admin fields of a report
MaxResults == 3

AliceCaps == User(9, "Alice", "Alice@x", SINGLE_USER, FALSE)

Blank == User(10, "Blank", "", SINGLE_USER, FALSE)

DeliverRows ==
    {InstanceForUser([instance_no |-> 1], u, 0) : u \in {Alice, AliceCaps, Bob, NoMail, Blank}}
        \cup {InstanceForUser([instance_no |-> 2], Alice, 1)}

DeliverAdminChoices == {<<FALSE, "">>, <<FALSE, "admin@x">>, <<TRUE, "admin@x">>, <<TRUE, "">>}

InitDeliver ==
    /\ pc = "returned"
    /\ config = "ok"
    /\ now = 5
    /\ cron_schedule \in CronChoices
    /\ last_run = NoTime
    /\ next_run = now
    /\ run_logs = <<>>
    /\ \E a \in DeliverAdminChoices : send_all_to_admin = a[1] /\ admin_email = a[2]
    /\ process_nos = <<>>
    /\ workflow_flags = NoFlags
    /\ rows = [p \in Procs |-> <<>>]
    /\ active = [p \in Procs |-> 0]
    /\ assigned = [n \in InstanceNos |-> <<>>]
    /\ unreachable = {}
    /\ progress_callback = TRUE
    /\ skip_user_expansion = FALSE
    /\ NoGroups
    /\ QueryLocalsInit
    /\ task = <<>>
    /\ semaphore = 0
    /\ waiters = <<>>
    /\ instances_with_tokens = <<>>
    /\ completed_count = 0
    /\ progress = <<>>
    /\ results \in SeqsUpTo(DeliverRows, MaxResults)
    /\ instances_found = 0
    /\ emails_sent = 0
    /\ emails_failed = 0
    /\ messages = <<>>
    /\ instances_by_user = <<>>
    /\ invalid_instances = <<>>
    /\ email_messages = <<>>
    /\ sent = 0
    /\ failed = 0
    /\ outbox = <<>>
    /\ returned = "nothing"
    /\ exception = ""
    /\ OtherIdle

NextDeliver == GroupAndRender \/ SendEmail \/ FinishRun \/ HandleException

SpecDeliver == InitDeliver /\ [][NextDeliver]_vars

----------------------------------------------------------------------------
(* The test variants: test_report, test_report_with_data, render_preview *)

TestVariants == {"test_report", "test_report_with_data"}

\* the lookups that make a test variant return early: a disabled report is
\* tested all the same, no SMTP configuration is looked up, and only
\* test_report looks the template up before querying
TestConfigOk(v, c) ==
    /\ c \notin {"no_report", "no_tenant", "tenant_inactive"}
    /\ v = "test_report" => c # "no_template"

\* test_connection: GetSystemCustomerId answered with a CustomerId, with
\* something else, or not at all
ConnectionOutcomes == {"ok", "malformed", "http_error"}

\* the first group, whatever its size
PreviewGroup_first(groups) == 1

\* "if len(user_instances) > max_instances": the first of the largest groups,
\* 0 when there is no group
PreviewGroup(groups) ==
    IF groups = <<>> THEN 0
    ELSE CHOOSE g \in 1..Len(groups) :
           /\ \A h \in 1..Len(groups) : Len(groups[h].instances) <= Len(groups[g].instances)
           /\ \A h \in 1..(g - 1) : Len(groups[h].instances) < Len(groups[g].instances)

PreviewOf(groups) ==
    LET g == PreviewGroup(groups)
    IN  IF g = 0 THEN NoPreview
        ELSE [user_email |-> groups[g].user_email, instances |-> groups[g].instances,
              recipient |-> Recipient(groups[g].user_email)]

\* the dictionary test_report_with_data makes of an instance: no token_no in it
SerializeInstance(r) ==
    [instance_no |-> r.instance_no, user_id |-> r.user_id,
     user_display_name |-> r.user_display_name, user_smtp |-> r.user_smtp]

SerializeGroups(groups) ==
    [g \in 1..Len(groups) |->
        [user_email |-> groups[g].user_email,
         instances |-> [k \in 1..Len(groups[g].instances) |->
                            SerializeInstance(groups[g].instances[k])]]]

\* entry of test_report and test_report_with_data up to the call of
\* get_all_workflow_instances
TestReport ==
    /\ pc = "idle"
    /\ variant \in TestVariants
    /\ instances_found' = 0
    /\ emails_sent' = 0
    /\ emails_failed' = 0
    /\ messages' = IF config = "disabled" THEN <<"Note: Report is disabled but can still be tested">>
                   ELSE <<>>
    /\ IF ~TestConfigOk(variant, config)
       THEN /\ returned' = "False"
            /\ pc' = "done"
            /\ UNCHANGED calls
       ELSE \E o \in ConnectionOutcomes :
              /\ calls' = Append(calls, [ep |-> "GetSystemCustomerId", arg |-> 0, outcome |-> o])
              /\ IF o = "ok"
                 THEN pc' = "gawi" /\ UNCHANGED returned
                 ELSE pc' = "done" /\ returned' = "False"
    /\ UNCHANGED <<envVars, argVars, queryVars, fetchVars, storeVars, adminVars, printed,
                   instances_by_user, invalid_instances, email_messages, sent, failed, outbox,
                   exception, otherVars>>

\* from the return of get_all_workflow_instances to the return of the test
\* variant; the rendering of the preview can raise
TestGroupAndPreview ==
    /\ pc = "returned"
    /\ variant \in TestVariants
    /\ instances_found' = Len(results)
    /\ IF results = <<>>
       THEN /\ messages' = Append(messages, "Found instances")
            /\ returned' = "True"
            /\ pc' = "done"
            /\ UNCHANGED <<instances_by_user, invalid_instances, instances_data, preview,
                           exception>>
       ELSE LET groups == GroupByUser(results)
                invalid == InvalidInstances(results)
            IN  /\ instances_by_user' = groups
                /\ invalid_instances' = invalid
                /\ messages' = messages \o <<"Found instances", "Grouped">>
                                   \o (IF invalid # <<>> THEN <<InvalidWarning(invalid)>>
                                       ELSE <<>>)
                /\ instances_data' = IF variant = "test_report_with_data"
                                     THEN SerializeGroups(groups) ELSE instances_data
                /\ IF groups = <<>> \/ config = "no_template"
                   THEN /\ returned' = "True"
                        /\ pc' = "done"
                        /\ UNCHANGED <<preview, exception>>
                   ELSE \E raising \in BOOLEAN :
                          IF raising
                          THEN /\ pc' = "raised"
                               /\ exception' = "Template rendering error"
                               /\ UNCHANGED <<preview, returned>>
                          ELSE /\ preview' = PreviewOf(groups)
                               /\ returned' = "True"
                               /\ pc' = "done"
                               /\ UNCHANGED exception
    /\ UNCHANGED <<envVars, argVars, queryVars, fetchVars, storeVars, adminVars, obsVars,
                   emails_sent, emails_failed, email_messages, sent, failed, outbox, variant,
                   cacheVars, schedVars,
                   parseVars, sortVars, hdrVars, dueVars, lifeVars>>

\* "except Exception as e" of the test variants: the error goes into the result
TestHandleException ==
    /\ pc = "raised"
    /\ variant \in TestVariants
    /\ messages' = Append(messages, "Error testing report: " \o exception)
    /\ returned' = "False"
    /\ pc' = "done"
    /\ UNCHANGED <<envVars, argVars, queryVars, fetchVars, storeVars, adminVars, obsVars,
                   instances_found, emails_sent, emails_failed, instances_by_user,
                   invalid_instances, email_messages, sent, failed, outbox, exception,
                   otherVars>>

\* render_preview: a preview from the data of an earlier test, without any
\* query; an exception of the rendering goes to the caller
RenderPreview ==
    /\ pc = "idle"
    /\ variant = "render_preview"
    /\ pc' = "done"
    /\ IF instances_data = <<>>
       THEN returned' = "False" /\ UNCHANGED <<preview, exception>>
       ELSE IF config = "no_template"
       THEN returned' = "True" /\ UNCHANGED <<preview, exception>>
       ELSE \E raising \in BOOLEAN :
              IF raising
              THEN exception' = "Template rendering error" /\ UNCHANGED <<preview, returned>>
              ELSE /\ preview' = PreviewOf(instances_data)
                   /\ returned' = "True"
                   /\ UNCHANGED exception
    /\ UNCHANGED <<envVars, argVars, queryVars, fetchVars, storeVars, adminVars, obsVars,
                   instances_found, emails_sent, emails_failed, messages, instances_by_user,
                   invalid_instances, email_messages, sent, failed, outbox, variant,
                   instances_data, cacheVars, schedVars,
                   parseVars, sortVars, hdrVars, dueVars, lifeVars>>

\* SpecTest: one call of a test variant, for every configuration and the remote
\* states below, or one call of render_preview on the data of an earlier test
TestAssigned == {<<Alice>>, <<Bob, Alice>>, <<Bob, NoMail>>}

PreviewData ==
    {SerializeGroups(GroupByUser(rs)) : rs \in SeqsUpTo(DeliverRows, MaxResults)}

InitTestStores ==
    /\ pc = "idle"
    /\ config \in ConfigStates
    /\ now = 5
    /\ cron_schedule = 3
    /\ last_run = NoTime
    /\ next_run = 6
    /\ run_logs = <<>>
    /\ \E a \in DeliverAdminChoices : send_all_to_admin = a[1] /\ admin_email = a[2]
    /\ workflow_flags = NoFlags
    /\ progress_callback = TRUE
    /\ skip_user_expansion = FALSE
    /\ NoGroups
    /\ QueryLocalsInit
    /\ FetchLocalsInit
    /\ instances_found = 0
    /\ emails_sent = 0
    /\ emails_failed = 0
    /\ messages = <<>>
    /\ instances_by_user = <<>>
    /\ invalid_instances = <<>>
    /\ email_messages = <<>>
    /\ sent = 0
    /\ failed = 0
    /\ outbox = <<>>
    /\ returned = "nothing"
    /\ exception = ""
    /\ preview = NoPreview
    /\ CacheIdle
    /\ SchedIdle
    /\ ParseIdle
    /\ SortIdle /\ HdrIdle /\ DueIdle /\ LifeIdle

InitTestQuery ==
    /\ InitTestStores
    /\ variant \in TestVariants
    /\ instances_data = <<>>
    /\ process_nos \in {<<>>, <<10, 20>>}
    /\ rows \in [Procs -> UNION {ReportRows(p) : p \in Procs}]
    /\ \A p \in Procs : rows[p] \in ReportRows(p)
    /\ active = [p \in Procs |-> Len(rows[p])]
    /\ \E f \in [1..2 -> TestAssigned] :
         assigned = [n \in InstanceNos |-> IF n \in 1..2 THEN f[n] ELSE <<>>]
    /\ unreachable = {}

InitPreview ==
    /\ InitTestStores
    /\ variant = "render_preview"
    /\ instances_data \in PreviewData
    /\ process_nos = <<>>
    /\ rows = [p \in Procs |-> <<>>]
    /\ active = [p \in Procs |-> 0]
    /\ assigned = [n \in InstanceNos |-> <<>>]
    /\ unreachable = {}

\* with fewer than ten refs no task waits for the semaphore
NextTest ==
    \/ TestReport
    \/ NextQuery
    \/ CreateTasks
    \/ \E i \in 1..Len(task) : EnterSemaphore(i)
    \/ \E i \in 1..Len(task) : FetchReturns(i)
    \/ FlattenResults
    \/ TestGroupAndPreview
    \/ TestHandleException
    \/ RenderPreview

SpecTest == (InitTestQuery \/ InitPreview) /\ [][NextTest]_vars

----------------------------------------------------------------------------
(* The cache of workflow processes: _get_cache, _set_cache,                 *)
(* clear_process_cache, get_all_workflow_processes                          *)

MaxGapCalls == 2

MaxClock == 3

\* _PROCESS_CACHE_TTL = timedelta(hours=1), in half hours
PROCESS_CACHE_TTL == 2

\* the tenant records of the store: create_tenant numbers them and accepts any name
Tenants ==
    <<[name |-> "acme", base_url |-> "u1"],
      [name |-> "globex", base_url |-> "u2"],
      [name |-> "acme", base_url |-> "u3"]>>

\* the ItemList GetObjectsList answers at each base URL; Name and Folder stand
\* for strings by their rank in string order, ID 0 for an item without ID
RemoteItems(url) ==
    CASE url = "u1" -> <<[ID |-> 12, Name |-> 2, Folder |-> 1],
                         [ID |-> 0, Name |-> 1, Folder |-> 1],
                         [ID |-> 11, Name |-> 1, Folder |-> 1]>>
      [] url = "u2" -> <<[ID |-> 21, Name |-> 1, Folder |-> 2],
                         [ID |-> 22, Name |-> 3, Folder |-> 1]>>
      [] url = "u3" -> <<[ID |-> 31, Name |-> 1, Folder |-> 1]>>

\* sorted(s, key=...): the elements by ascending key, equal keys in input order
StableSort(s, key) ==
    LET rank(i) == Cardinality({j \in 1..Len(s) :
                        key[j] < key[i] \/ (key[j] = key[i] /\ j < i)}) + 1
    IN  [r \in 1..Len(s) |-> s[CHOOSE i \in 1..Len(s) : rank(i) = r]]

\* the processes of a response: "if process_no" keeps the items with an ID
ExtractProcesses(items) ==
    LET kept == SelectSeq(items, LAMBDA it : it.ID # 0)
    IN  [i \in 1..Len(kept) |-> [process_no |-> kept[i].ID, process_name |-> kept[i].Name,
                                  folder_name |-> kept[i].Folder]]

\* key=lambda p: (p["folder_name"], p["process_name"])
SortProcesses(processes) ==
    StableSort(processes, [i \in 1..Len(processes) |->
                              processes[i].folder_name * 10 + processes[i].process_name])

\* "datetime.utcnow() - timestamp > _PROCESS_CACHE_TTL"
CacheExpired(name) == clock - process_cache[name].timestamp > PROCESS_CACHE_TTL

\* _get_cache gives data
CacheHit(name) == process_cache[name] # NoEntry /\ ~CacheExpired(name)

\* the cache emptied whatever the argument
ClearedCache_all(tenant_name) == [n \in TenantNames |-> NoEntry]

\* clear_process_cache: "if tenant_name" drops that tenant's keys, anything
\* falsy drops them all
ClearedCache(tenant_name) ==
    IF tenant_name # ""
    THEN [n \in TenantNames |-> IF n = tenant_name THEN NoEntry ELSE process_cache[n]]
    ELSE [n \in TenantNames |-> NoEntry]

\* the cache key of a client: (self.tenant_name, "workflow_processes")
CacheKey(t) == Tenants[t].name

\* get_all_workflow_processes up to its return on a hit, or up to the await of
\* GetObjectsList; _get_cache deletes an expired entry
GapCall(t, use_cache) ==
    /\ Len(gap) < MaxGapCalls
    /\ LET name == CacheKey(t)
           call == [tenant |-> t, use_cache |-> use_cache, started |-> clock,
                    prior_done |-> \A i \in 1..Len(gap) : gap[i].state = "returned"]
       IN  IF use_cache /\ CacheHit(name)
           THEN /\ gap' = Append(gap, call @@ [state |-> "returned", hit |-> TRUE, outcome |-> "none",
                                                finished |-> clock,
                                                entry_timestamp |-> process_cache[name].timestamp,
                                                result |-> process_cache[name].data])
                /\ UNCHANGED <<process_cache, obsVars>>
           ELSE /\ process_cache' = IF use_cache /\ process_cache[name] # NoEntry
                                    THEN [process_cache EXCEPT ![name] = NoEntry]
                                    ELSE process_cache
                /\ \E o \in {"ok", "http_error"} :
                     /\ Post("GetObjectsList", Tenants[t].base_url, o)
                     /\ gap' = Append(gap, call @@ [state |-> "awaiting", hit |-> FALSE,
                                                    outcome |-> o, finished |-> -1,
                                                    entry_timestamp |-> -1, result |-> <<>>])
    /\ UNCHANGED <<pipelineVars, testVars, schedVars, parseVars, sortVars, hdrVars, dueVars, lifeVars, clock, clear_log>>

\* the empty list of a failed request cached like any other
CacheAfterPost_failureCached(name, outcome, sorted_processes) ==
    [process_cache EXCEPT ![name] = [timestamp |-> clock,
                                     data |-> IF PostReturnsNone(outcome) THEN <<>>
                                              ELSE sorted_processes]]

\* the cache when get_all_workflow_processes returns: "if not result: return
\* []" comes before _set_cache(cache_key, sorted_processes), which stores the
\* list under datetime.utcnow()
CacheAfterPost(name, outcome, sorted_processes) ==
    IF PostReturnsNone(outcome) THEN process_cache
    ELSE [process_cache EXCEPT ![name] = [timestamp |-> clock, data |-> sorted_processes]]

\* the GetObjectsList response arrives: "if not result: return []", else the
\* sorted list is cached under the current time and returned
GapReturn(i) ==
    /\ gap[i].state = "awaiting"
    /\ LET name == CacheKey(gap[i].tenant)
           sorted_processes ==
               SortProcesses(ExtractProcesses(RemoteItems(Tenants[gap[i].tenant].base_url)))
       IN  /\ gap' = IF PostReturnsNone(gap[i].outcome)
                      THEN [gap EXCEPT ![i].state = "returned", ![i].finished = clock]
                      ELSE [gap EXCEPT ![i].state = "returned", ![i].finished = clock,
                                       ![i].result = sorted_processes]
           /\ process_cache' = CacheAfterPost(name, gap[i].outcome, sorted_processes)
    /\ UNCHANGED <<pipelineVars, obsVars, testVars, schedVars, parseVars, sortVars, hdrVars, dueVars, lifeVars, clock, clear_log>>

\* half an hour passes; a request is answered or timed out long before that
ClockTick ==
    /\ clock < MaxClock
    /\ \A i \in 1..Len(gap) : gap[i].state = "returned"
    /\ clock' = clock + 1
    /\ UNCHANGED <<pipelineVars, obsVars, testVars, schedVars, parseVars, sortVars, hdrVars, dueVars, lifeVars, process_cache, gap, clear_log>>

MaxClears == 1

ClearProcessCache(tenant_name) ==
    /\ Len(clear_log) < MaxClears
    /\ process_cache' = ClearedCache(tenant_name)
    /\ clear_log' = Append(clear_log,
                           [tenant_name |-> tenant_name, calls_before |-> Len(gap),
                            in_flight |-> \E i \in 1..Len(gap) : gap[i].state = "awaiting"])
    /\ UNCHANGED <<pipelineVars, obsVars, testVars, schedVars, parseVars, sortVars, hdrVars, dueVars, lifeVars, clock, gap>>

\* nothing of process_report is running
PipelineIdle ==
    /\ pc = "idle"
    /\ process_nos = <<>>
    /\ workflow_flags = NoFlags
    /\ rows = [p \in Procs |-> <<>>]
    /\ active = [p \in Procs |-> 0]
    /\ assigned = [n \in InstanceNos |-> <<>>]
    /\ unreachable = {}
    /\ progress_callback = FALSE
    /\ skip_user_expansion = FALSE
    /\ NoGroups
    /\ QueryLocalsInit
    /\ FetchLocalsInit
    /\ StoresIdle

\* SpecCache: up to MaxGapCalls calls of get_all_workflow_processes by the
\* clients of the three tenant records, overlapping or not, while time passes
InitCache == PipelineIdle /\ TestIdle /\ CacheIdle /\ SchedIdle /\ ParseIdle /\ SortIdle /\ HdrIdle /\ DueIdle /\ LifeIdle

NextCache ==
    \/ \E t \in 1..Len(Tenants) : \E use_cache \in BOOLEAN : GapCall(t, use_cache)
    \/ \E i \in 1..Len(gap) : GapReturn(i)
    \/ ClockTick

SpecCache == InitCache /\ [][NextCache]_vars

\* SpecClear: calls of get_all_workflow_processes and of clear_process_cache
\* within one half hour, so that no entry expires; the calls are default
\* calls (use_cache=True)
NextClear ==
    \/ \E t \in 1..Len(Tenants) : GapCall(t, TRUE)
    \/ \E i \in 1..Len(gap) : GapReturn(i)
    \/ \E tenant_name \in TenantNames \cup {""} : ClearProcessCache(tenant_name)

SpecClear == InitCache /\ [][NextClear]_vars

----------------------------------------------------------------------------
(* ReportScheduler: _check_and_run_reports and run_report_now, and the runs *)
(* of process_report they await                                             *)

MaxTicks == 1

MaxManualRuns == 1

\* the recipient groups a run of each report finds
RecipientsOf(r) == IF r = 1 THEN <<"alice@x", "bob@x">> ELSE <<"alice@x">>

\* get_reports_due_now: the due reports in the order of the store
DueNow == SelectSeq(<<1, 2>>, LAMBDA r : report_due[r])

\* a lock held while a run of the report is in progress
ReportLocked_whileRunning(r) ==
    \E k \in 1..Len(runs) : runs[k].report = r /\ runs[k].stage # "done"

\* nothing in ReportScheduler or process_report keeps a second run of a report out
ReportLocked(r) == FALSE

\* the runs of the loop started without awaiting the one before
TickAwaits_none == TRUE

\* "success = await processor.process_report(report['id'])": the loop goes on
\* when the run it started has returned or raised
TickAwaits == \A k \in 1..Len(runs) : runs[k].origin = "tick" => runs[k].stage = "done"

\* an exception of a run left "for report in reports"
LoopBroken_byFailure ==
    \E k \in 1..Len(runs) :
        runs[k].origin = "tick" /\ runs[k].tick = ticks /\ runs[k].result \in {"False", "raised"}

\* the try/except around "await processor.process_report" keeps what a run
\* raises inside its turn of the loop; a run that returns False is printed
LoopBroken == FALSE

StartRun(origin, r) ==
    runs' = Append(runs, [origin |-> origin, report |-> r, tick |-> ticks, stage |-> "querying",
                          to_send |-> <<>>, sent |-> 0, result |-> ""])

\* the interval trigger fires; the job is not started again while it runs
TickStart ==
    /\ tick_pc # "running"
    /\ ticks < MaxTicks
    /\ ticks' = ticks + 1
    /\ due_reports' = DueNow
    /\ tick_i' = 1
    /\ tick_pc' = IF DueNow = <<>> THEN "done" ELSE "running"
    /\ UNCHANGED <<pipelineVars, obsVars, testVars, cacheVars, parseVars, sortVars, hdrVars, dueVars, lifeVars, report_due, runs, mail_log,
                   report_logs>>

\* one turn of "for report in reports"
TickRunReport ==
    /\ tick_pc = "running"
    /\ tick_i <= Len(due_reports)
    /\ TickAwaits
    /\ ~LoopBroken
    /\ ~ReportLocked(due_reports[tick_i])
    /\ StartRun("tick", due_reports[tick_i])
    /\ tick_i' = tick_i + 1
    /\ UNCHANGED <<pipelineVars, obsVars, testVars, cacheVars, parseVars, sortVars, hdrVars, dueVars, lifeVars, report_due, tick_pc, due_reports,
                   ticks, mail_log, report_logs>>

\* the loop is over and its last run has returned
TickEnd ==
    /\ tick_pc = "running"
    /\ tick_i > Len(due_reports) \/ LoopBroken
    /\ TickAwaits
    /\ tick_pc' = "done"
    /\ UNCHANGED <<pipelineVars, obsVars, testVars, cacheVars, parseVars, sortVars, hdrVars, dueVars, lifeVars, report_due, due_reports, tick_i,
                   ticks, runs, mail_log, report_logs>>

\* run_report_now(report_id), from the "run" request of a user
RunReportNow(r) ==
    /\ Len(SelectSeq(runs, LAMBDA x : x.origin = "manual")) < MaxManualRuns
    /\ ~ReportLocked(r)
    /\ StartRun("manual", r)
    /\ UNCHANGED <<pipelineVars, obsVars, testVars, cacheVars, parseVars, sortVars, hdrVars, dueVars, lifeVars, report_due, tick_pc, due_reports,
                   tick_i, ticks, mail_log, report_logs>>

\* process_report of run k up to send_bulk: the query gives the groups, or
\* raises and the run is logged as error and returns False, or the store
\* raises outside the try of process_report and the exception reaches the caller
RunQuery(k) ==
    /\ runs[k].stage = "querying"
    /\ \E outcome \in {"ok", "error", "raised"} :
         CASE outcome = "error" ->
              /\ runs' = [runs EXCEPT ![k].stage = "done", ![k].result = "False"]
              /\ report_logs' = Append(report_logs, [run |-> k, report |-> runs[k].report,
                                                      status |-> "error"])
           [] outcome = "raised" ->
              /\ runs' = [runs EXCEPT ![k].stage = "done", ![k].result = "raised"]
              /\ UNCHANGED report_logs
           [] OTHER ->
              /\ runs' = [runs EXCEPT ![k].stage = "emailing",
                                      ![k].to_send = RecipientsOf(runs[k].report)]
              /\ UNCHANGED report_logs
    /\ UNCHANGED <<pipelineVars, obsVars, testVars, cacheVars, parseVars, sortVars, hdrVars, dueVars, lifeVars, report_due, tick_pc, due_reports,
                   tick_i, ticks, mail_log>>

\* one send of send_bulk in run k
RunSend(k) ==
    /\ runs[k].stage = "emailing"
    /\ runs[k].sent < Len(runs[k].to_send)
    /\ runs' = [runs EXCEPT ![k].sent = @ + 1]
    /\ mail_log' = Append(mail_log, [run |-> k, report |-> runs[k].report,
                                      to_address |-> runs[k].to_send[runs[k].sent + 1]])
    /\ UNCHANGED <<pipelineVars, obsVars, testVars, cacheVars, parseVars, sortVars, hdrVars, dueVars, lifeVars, report_due, tick_pc, due_reports,
                   tick_i, ticks, report_logs>>

\* run k after send_bulk: the schedule moves next_run into the future, the
\* run is logged
RunFinish(k) ==
    /\ runs[k].stage = "emailing"
    /\ runs[k].sent = Len(runs[k].to_send)
    /\ runs' = [runs EXCEPT ![k].stage = "done", ![k].result = "True"]
    /\ report_due' = [report_due EXCEPT ![runs[k].report] = FALSE]
    /\ report_logs' = Append(report_logs, [run |-> k, report |-> runs[k].report,
                                            status |-> "success"])
    /\ UNCHANGED <<pipelineVars, obsVars, testVars, cacheVars, parseVars, sortVars, hdrVars, dueVars, lifeVars, tick_pc, due_reports, tick_i,
                   ticks, mail_log>>

\* SpecSched: the ticks of the scheduler and the manual runs of the users, for
\* every set of due reports
InitSched ==
    /\ PipelineIdle /\ TestIdle /\ CacheIdle /\ ParseIdle /\ SortIdle /\ HdrIdle /\ DueIdle /\ LifeIdle
    /\ report_due \in [Reports -> BOOLEAN]
    /\ tick_pc = "idle"
    /\ due_reports = <<>>
    /\ tick_i = 1
    /\ ticks = 0
    /\ runs = <<>>
    /\ mail_log = <<>>
    /\ report_logs = <<>>

NextSched ==
    \/ TickStart
    \/ TickRunReport
    \/ TickEnd
    \/ \E r \in Reports : RunReportNow(r)
    \/ \E k \in 1..Len(runs) : RunQuery(k)
    \/ \E k \in 1..Len(runs) : RunSend(k)
    \/ \E k \in 1..Len(runs) : RunFinish(k)

SpecSched == InitSched /\ [][NextSched]_vars

----------------------------------------------------------------------------
(* parse_dotnet_date                                                        *)

\* datetime.max, 9999-12-31T23:59:59, in units of 1000 seconds since the epoch
MaxTimestamp == 253402300

None == [raised |-> FALSE, kind |-> "none", t |-> 0]

Raised == [raised |-> TRUE, kind |-> "none", t |-> 0]

Aware(t) == [raised |-> FALSE, kind |-> "aware", t |-> t]

Naive(t) == [raised |-> FALSE, kind |-> "naive", t |-> t]

\* the epoch counts of the /Date(N)/ strings: the epoch, dates of this
\* century, the last representable instant, and counts past it
EpochCounts == {0, 1, 86, 946684, 1650000, 1700000, 1700001, 1800000, 1900000, 253402214, 253402300,
                253402301, 260000000, 2000000000}

IsoTimes == {-2208988, 946684, 1650000, 1700000, 1900000}

\* the strings handed to the parser
DateStrings ==
    {NullDate, [form |-> "empty", n |-> 0, tz |-> ""],
     [form |-> "malformed", n |-> 0, tz |-> ""], [form |-> "malformed", n |-> 0, tz |-> "Z"]}
    \cup {[form |-> "dotnet", n |-> n, tz |-> tz] : n \in EpochCounts, tz \in {"", "+0100", "-0500"}}
    \cup {[form |-> "iso", n |-> t, tz |-> tz] : t \in IsoTimes, tz \in {"", "Z", "+02:00"}}

\* datetime.fromtimestamp(seconds, tz=timezone.utc): the date, or the
\* exception of a count outside the years 1..9999
FromTimestamp(n) == IF n > MaxTimestamp THEN Raised ELSE Aware(n)

parse_dotnet_date(d) ==
    IF d.form \in {"null", "empty"} THEN None
    ELSE IF d.form = "dotnet" THEN FromTimestamp(d.n)
    ELSE IF d.form = "iso" THEN (IF d.tz = "" THEN Naive(d.n) ELSE Aware(d.n))
    ELSE None

\* one call of parse_dotnet_date
ParseDotnetDate ==
    /\ parse_pc = "ready"
    /\ parsed' = parse_dotnet_date(date_str)
    /\ parse_pc' = "done"
    /\ UNCHANGED <<pipelineVars, obsVars, testVars, cacheVars, schedVars, sortVars, hdrVars, dueVars, lifeVars, date_str>>

\* SpecParse: one call for each string
InitParse ==
    /\ PipelineIdle /\ TestIdle /\ CacheIdle /\ SchedIdle /\ SortIdle /\ HdrIdle /\ DueIdle /\ LifeIdle
    /\ parse_pc = "ready"
    /\ date_str \in DateStrings
    /\ parsed = NoOutcome

NextParse == ParseDotnetDate

SpecParse == InitParse /\ [][NextParse]_vars

----------------------------------------------------------------------------
(* get_workflow_instance's dates, InstanceForUser.is_overdue, sort_instances *)

MaxSortLen == 3

TASK_DUE_DATE == "task_due_date"

PROCESS_NAME == "process_name"

TASK_START_DATE == "task_start_date"

\* the values a report's sort_order can hold: the three orders, another
\* string, and null
SortOrders == {TASK_DUE_DATE, PROCESS_NAME, TASK_START_DATE, "priority", "null"}

\* datetime(9999, 12, 31, tzinfo=timezone.utc)
far_future == [raised |-> FALSE, kind |-> "aware", t |-> 253402214]

\* datetime(2000, 1, 1)
DefaultStart == [raised |-> FALSE, kind |-> "naive", t |-> 946684]

\* 1900-12-31T23:59:59 and before: "task_due.year <= 1900"
Year1900OrEarlier(d) == d.t < -2177453

RawDates(form, times, zones) == {[form |-> form, n |-> t, tz |-> z] : t \in times, z \in zones}

\* TaskDueDate as answered: missing, epoch counts before and after the clock,
\* an ISO string without zone, and the 1900 placeholder
RawDue == {NullDate} \cup RawDates("dotnet", {1700000, 1900000}, {""})
                    \cup RawDates("iso", {1700000, -2208988}, {""})

\* TaskStartDate as answered
RawStart == {NullDate} \cup RawDates("dotnet", {1650000}, {""}) \cup RawDates("iso", {1650000}, {""})

ProcessNames == {"Beta", "alpha"}

WfRows == [ProcessName : ProcessNames, TaskDueDate : RawDue, TaskStartDate : RawStart]

\* str.lower()
Lower(name) == IF name = "Beta" THEN "beta" ELSE name

\* the strings in the order "<" gives them
CodePointOrder == <<"Beta", "alpha", "beta">>

StrRank(str) == CHOOSE i \in 1..Len(CodePointOrder) : CodePointOrder[i] = str

\* the dates of get_workflow_instance, carried into the InstanceForUser
InstanceOf(row, no) ==
    LET due == parse_dotnet_date(row.TaskDueDate)
        start == parse_dotnet_date(row.TaskStartDate)
    IN  [instance_no |-> no,
         process_name |-> row.ProcessName,
         task_due |-> IF due.kind # "none" /\ Year1900OrEarlier(due) THEN None ELSE due,
         task_start |-> IF start.kind = "none" THEN DefaultStart ELSE start]

is_overdue(inst, clock_now) == inst.task_due.kind # "none" /\ clock_now > inst.task_due.t

\* a key whose undated entries sort with the overdue ones
due_date_key_undatedFirst(inst, clock_now) ==
    IF inst.task_due.kind = "none" THEN [c |-> 0, d |-> far_future]
    ELSE IF is_overdue(inst, clock_now) THEN [c |-> 0, d |-> inst.task_due]
    ELSE [c |-> 1, d |-> inst.task_due]

due_date_key(inst, clock_now) ==
    IF inst.task_due.kind = "none" THEN [c |-> 2, d |-> far_future]
    ELSE IF is_overdue(inst, clock_now) THEN [c |-> 0, d |-> inst.task_due]
    ELSE [c |-> 1, d |-> inst.task_due]

process_name_key(inst) ==
    [c |-> StrRank(Lower(inst.process_name)),
     d |-> IF inst.task_due.kind # "none" THEN inst.task_due ELSE far_future]

\* key=lambda inst: inst.task_start or far_future
task_start_key(inst) ==
    [c |-> 0, d |-> IF inst.task_start.kind # "none" THEN inst.task_start ELSE far_future]

\* "<" of two keys: the first components, then the dates
KeyLt(x, y) == x.c < y.c \/ (x.c = y.c /\ x.d.t < y.d.t)

\* "<" of an aware and a naive datetime raises TypeError; it is reached when
\* what stands before the dates is equal
KeyTypeError(x, y) == x.c = y.c /\ x.d.kind # y.d.kind

\* sorted(insts, key=...): on lists this short the insertion sort comes to
\* compare any two keys that "<" cannot order, so it raises when there are
\* two; otherwise the entries by ascending key, equal keys in input order
Sorted(insts, key) ==
    LET n == Len(insts)
        rank(i) == Cardinality({j \in 1..n : KeyLt(key[j], key[i])
                                               \/ (~KeyLt(key[i], key[j]) /\ j < i)}) + 1
    IN  IF \E i, j \in 1..n : KeyTypeError(key[i], key[j])
        THEN [raised |-> TRUE, value |-> <<>>]
        ELSE [raised |-> FALSE,
              value |-> [r \in 1..n |-> insts[CHOOSE i \in 1..n : rank(i) = r]]]

\* "return sort_instances(instances, InstanceSortOrder.TASK_DUE_DATE)"
FallbackOrder == TASK_DUE_DATE

RECURSIVE sort_instances(_, _, _)
sort_instances(insts, order, clock_now) ==
    IF insts = <<>> THEN [raised |-> FALSE, value |-> insts]
    ELSE IF order = TASK_DUE_DATE
         THEN Sorted(insts, [i \in 1..Len(insts) |-> due_date_key(insts[i], clock_now)])
    ELSE IF order = PROCESS_NAME
         THEN Sorted(insts, [i \in 1..Len(insts) |-> process_name_key(insts[i])])
    ELSE IF order = TASK_START_DATE
         THEN Sorted(insts, [i \in 1..Len(insts) |-> task_start_key(insts[i])])
    ELSE sort_instances(insts, FallbackOrder, clock_now)

\* the instances of one recipient, from the answers of get_workflow_instance
BuildInstances ==
    /\ sort_pc = "rows"
    /\ user_instances' = [i \in 1..Len(wf_rows) |-> InstanceOf(wf_rows[i], i)]
    /\ sort_pc' = "ready"
    /\ UNCHANGED <<pipelineVars, obsVars, testVars, cacheVars, schedVars, parseVars, hdrVars, dueVars, lifeVars, wf_rows,
                   sort_order, utc_now, sorted_instances>>

\* "instances_by_user[user_email] = sort_instances(instances_by_user[user_email], sort_order)"
SortInstances ==
    /\ sort_pc = "ready"
    /\ sorted_instances' = sort_instances(user_instances, sort_order, utc_now)
    /\ sort_pc' = "done"
    /\ UNCHANGED <<pipelineVars, obsVars, testVars, cacheVars, schedVars, parseVars, hdrVars, dueVars, lifeVars, wf_rows,
                   user_instances, sort_order, utc_now>>

\* SpecSort: every list of up to MaxSortLen rows, under every order
InitSort ==
    /\ PipelineIdle /\ TestIdle /\ CacheIdle /\ SchedIdle /\ ParseIdle /\ HdrIdle /\ DueIdle /\ LifeIdle
    /\ sort_pc = "rows"
    /\ wf_rows \in UNION {[1..n -> WfRows] : n \in 0..MaxSortLen}
    /\ user_instances = <<>>
    /\ sort_order \in SortOrders
    /\ utc_now \in {1800000}
    /\ sorted_instances = NoList

NextSort ==
    \/ BuildInstances
    \/ SortInstances

SpecSort == InitSort /\ [][NextSort]_vars

----------------------------------------------------------------------------
(* ThereforeClient.__init__ and _get_headers, on each path that builds a    *)
(* client for a stored tenant                                               *)

MaxRequests == 2

ClientPaths == {"process_listing", "connection_test", "report_run", "report_test",
                "report_test_with_data"}

Endpoints == {"GetSystemCustomerId", "GetObjectsList", "ExecuteWorkflowQueryForAll",
              "GetWorkflowInstance"}

\* tenant.get('is_single_instance', False)
StoredSingle(stored) == stored = "true"

\* the is_single_instance argument of the constructor call of the path: the
\* tenants router passes the stored flag, ReportProcessor passes nothing and
\* the parameter keeps its default
ClientSingle(path, stored) ==
    IF path \in {"process_listing", "connection_test"} THEN StoredSingle(stored) ELSE FALSE

\* _get_headers
GetHeaders(single) ==
    {"Authorization", "Content-Type", "Accept"}
        \cup (IF ~single THEN {"TenantName"} ELSE {})

BuildClient ==
    /\ hdr_pc = "tenant"
    /\ client_single' = ClientSingle(client_path, tenant_single)
    /\ hdr_pc' = "client"
    /\ UNCHANGED <<pipelineVars, obsVars, testVars, cacheVars, schedVars, parseVars, sortVars,
                   dueVars, lifeVars, client_path, tenant_single, requests>>

\* _post or _get of the client
SendRequest(endpoint) ==
    /\ hdr_pc = "client"
    /\ Len(requests) < MaxRequests
    /\ requests' = Append(requests, [endpoint |-> endpoint, headers |-> GetHeaders(client_single)])
    /\ UNCHANGED <<pipelineVars, obsVars, testVars, cacheVars, schedVars, parseVars, sortVars,
                   dueVars, lifeVars, hdr_pc, client_path, tenant_single, client_single>>

\* SpecHeaders: every path, for every stored flag
InitHeaders ==
    /\ PipelineIdle /\ TestIdle /\ CacheIdle /\ SchedIdle /\ ParseIdle /\ SortIdle /\ DueIdle /\ LifeIdle
    /\ hdr_pc = "tenant"
    /\ client_path \in ClientPaths
    /\ tenant_single \in {"true", "false", "missing"}
    /\ client_single = FALSE
    /\ requests = <<>>

NextHeaders ==
    \/ BuildClient
    \/ \E endpoint \in Endpoints : SendRequest(endpoint)

SpecHeaders == InitHeaders /\ [][NextHeaders]_vars

----------------------------------------------------------------------------
(* One stored report: get_reports_due_now, process_report's entry and its   *)
(* _update_report_schedule, update_report from the edit form                *)

MaxUtc == 8

MaxDueEvents == 4

MaxEdits == 1

\* the schedules of the reports: every 2 hours, every 3 hours
DueCrons == {2, 3}

UtcOffsets == {-2, 0, 1}

\* how a run ends: all sent or nothing found, some sends failed, an exception
\* of the query or the rendering, a missing tenant, template or SMTP setting
RunOutcomes == {"success", "partial", "error", "aborted"}

\* the ends that reach _update_report_schedule
UpdatesSchedule(outcome) == outcome \in {"success", "partial"}

\* datetime.now()
LocalNow == utc_clock + utc_offset

\* croniter(cron_schedule, datetime.now()).get_next(datetime), None when rejected
NextRunFrom(cron) == IF CronValid(cron) THEN CronNext(cron, LocalNow) ELSE NoTime

\* get_reports_due_now: enabled, with a next_run, and next_run <= utcnow
IsDue(rep) == rep.enabled /\ rep.next_run # NoTime /\ rep.next_run <= utc_clock

\* _update_report_schedule(report): the cron_schedule of the dict read at the
\* start of process_report
ScheduleCron(run) == run.cron_schedule

\* a run that starts whatever the enabled flag
ReportEnabled_always(rep) == TRUE

\* "if not report.get('enabled', True)"
ReportEnabled(rep) == rep.enabled

DueEvent(kind, origin, outcome) ==
    [kind |-> kind, origin |-> origin, outcome |-> outcome, utc |-> utc_clock,
     cron_schedule |-> stored_report.cron_schedule, enabled |-> stored_report.enabled]

\* time passes
AdvanceClock ==
    /\ utc_clock < MaxUtc
    /\ utc_clock' = utc_clock + 1
    /\ UNCHANGED <<pipelineVars, obsVars, testVars, cacheVars, schedVars, parseVars, sortVars,
                   hdrVars, lifeVars, utc_offset, stored_report, due_run, due_events, due_effects>>

\* process_report up to its first await: the report is read, a disabled one
\* is refused
BeginRun(origin) ==
    IF ReportEnabled(stored_report)
    THEN /\ due_run' = [state |-> "running", origin |-> origin,
                        cron_schedule |-> stored_report.cron_schedule]
         /\ due_events' = Append(due_events, DueEvent("started", origin, ""))
    ELSE /\ due_run' = due_run
         /\ due_events' = Append(due_events, DueEvent("refused", origin, ""))

\* a tick of the scheduler finds the report due and processes it
DueTick ==
    /\ due_run.state = "idle"
    /\ Len(due_events) < MaxDueEvents
    /\ IsDue(stored_report)
    /\ BeginRun("tick")
    /\ UNCHANGED <<pipelineVars, obsVars, testVars, cacheVars, schedVars, parseVars, sortVars,
                   hdrVars, lifeVars, utc_clock, utc_offset, stored_report, due_effects>>

\* run_report_now from the "run" request
DueRunNow ==
    /\ due_run.state = "idle"
    /\ Len(due_events) < MaxDueEvents
    /\ BeginRun("manual")
    /\ UNCHANGED <<pipelineVars, obsVars, testVars, cacheVars, schedVars, parseVars, sortVars,
                   hdrVars, lifeVars, utc_clock, utc_offset, stored_report, due_effects>>

\* what a run has done when it ends: the query, the emails of a run that got
\* to send_bulk, the run log of every run that got past the early returns
RunEffects(outcome) ==
    IF outcome = "aborted" THEN due_effects
    ELSE [remote_calls |-> due_effects.remote_calls + 1,
          emails |-> due_effects.emails + (IF UpdatesSchedule(outcome) THEN 1 ELSE 0),
          run_logs |-> due_effects.run_logs + 1]

\* the run ends: sent or nothing found (the schedule is updated, then the
\* run logged), an exception (logged as error, the schedule untouched), or an
\* early return on a missing setting (nothing written)
DueRunEnds(outcome) ==
    /\ due_run.state = "running"
    /\ due_run' = NoRun
    /\ stored_report' =
           IF ~UpdatesSchedule(outcome) THEN stored_report
           ELSE [stored_report EXCEPT !.last_run = utc_clock,
                                      !.next_run = NextRunFrom(ScheduleCron(due_run))]
    /\ due_events' = Append(due_events, DueEvent("ended", due_run.origin, outcome))
    /\ due_effects' = RunEffects(outcome)
    /\ UNCHANGED <<pipelineVars, obsVars, testVars, cacheVars, schedVars, parseVars, sortVars,
                   hdrVars, lifeVars, utc_clock, utc_offset>>

\* update_report from the edit form: cron_schedule is always among the
\* updates, so next_run is recalculated
EditReport(cron, enabled) ==
    /\ Cardinality({i \in 1..Len(due_events) : due_events[i].kind = "edited"}) < MaxEdits
    /\ Len(due_events) < MaxDueEvents
    /\ stored_report' = [stored_report EXCEPT !.cron_schedule = cron, !.enabled = enabled,
                                               !.next_run = NextRunFrom(cron)]
    /\ due_events' = Append(due_events, DueEvent("edited", "", ""))
    /\ UNCHANGED <<pipelineVars, obsVars, testVars, cacheVars, schedVars, parseVars, sortVars,
                   hdrVars, lifeVars, utc_clock, utc_offset, due_run, due_effects>>

\* test_report and test_report_with_data: a disabled report is noted and
\* tested all the same; the test queries the remote system and writes nothing
DueTestReport ==
    /\ Len(due_events) < MaxDueEvents
    /\ due_events' = Append(due_events, DueEvent("tested", "test", ""))
    /\ due_effects' = [due_effects EXCEPT !.remote_calls = @ + 1]
    /\ UNCHANGED <<pipelineVars, obsVars, testVars, cacheVars, schedVars, parseVars, sortVars,
                   hdrVars, lifeVars, utc_clock, utc_offset, stored_report, due_run>>

\* SpecDue: a report created at some hour, for every offset of the local clock
InitDue ==
    /\ PipelineIdle /\ TestIdle /\ CacheIdle /\ SchedIdle /\ ParseIdle /\ SortIdle /\ HdrIdle
    /\ LifeIdle
    /\ utc_clock = 4
    /\ utc_offset \in UtcOffsets
    /\ \E cron \in DueCrons, enabled \in BOOLEAN :
         stored_report = [enabled |-> enabled, cron_schedule |-> cron,
                          next_run |-> CronNext(cron, utc_clock + utc_offset), last_run |-> NoTime]
    /\ due_run = NoRun
    /\ due_events = <<>>
    /\ due_effects = NoEffects

NextDue ==
    \/ AdvanceClock
    \/ DueTick
    \/ DueRunNow
    \/ \E outcome \in RunOutcomes : DueRunEnds(outcome)
    \/ \E cron \in DueCrons, enabled \in BOOLEAN : EditReport(cron, enabled)
    \/ DueTestReport

SpecDue == InitDue /\ [][NextDue]_vars

----------------------------------------------------------------------------
(* The life of the scheduler: ReportScheduler.start, stop and the runs of   *)
(* _check_and_run_reports its interval job submits                          *)

MaxLifeEvents == 5

MaxDueFound == 2

LifeEvent(kind, tick, acted) == [kind |-> kind, tick |-> tick, acted |-> acted]

\* start() going on to build a scheduler whatever self.running says
StartReturnsEarly_never == FALSE

\* "if self.running: return"
StartReturnsEarly == sched_running

\* "if not self.running: return"
TickReturnsEarly == ~sched_running

\* start(): a new AsyncIOScheduler with the job "check_reports", started; the
\* scheduler self.scheduler held before is dropped as it is
Start ==
    /\ Len(life_log) < MaxLifeEvents
    /\ IF StartReturnsEarly
       THEN /\ life_log' = Append(life_log, LifeEvent("start", 0, FALSE))
            /\ UNCHANGED <<sched_running, aps, polling_jobs>>
       ELSE /\ aps' = "started"
            /\ polling_jobs' = polling_jobs + 1
            /\ sched_running' = TRUE
            /\ life_log' = Append(life_log, LifeEvent("start", 0, TRUE))
    /\ UNCHANGED <<pipelineVars, obsVars, testVars, cacheVars, schedVars, parseVars, sortVars,
                   hdrVars, dueVars, fire_pending, life_tick>>

\* stop(): "if self.scheduler" shuts it down and clears self.running; the
\* shutdown removes the job, and cancels or not the run submitted and the
\* run in progress
Stop ==
    /\ Len(life_log) < MaxLifeEvents
    /\ life_log' = Append(life_log, LifeEvent("stop", 0, aps = "started"))
    /\ IF aps = "none"
       THEN UNCHANGED <<sched_running, aps, polling_jobs, fire_pending, life_tick>>
       ELSE /\ aps' = "shutdown"
            /\ polling_jobs' = IF aps = "started" THEN polling_jobs - 1 ELSE polling_jobs
            /\ sched_running' = FALSE
            /\ fire_pending' \in {fire_pending, FALSE}
            /\ life_tick' \in {life_tick, NoTick}
    /\ UNCHANGED <<pipelineVars, obsVars, testVars, cacheVars, schedVars, parseVars, sortVars,
                   hdrVars, dueVars>>

\* the interval of a started scheduler elapses: the job is submitted, unless
\* its last run is still going
IntervalFires ==
    /\ polling_jobs > 0
    /\ ~fire_pending
    /\ life_tick = NoTick
    /\ fire_pending' = TRUE
    /\ UNCHANGED <<pipelineVars, obsVars, testVars, cacheVars, schedVars, parseVars, sortVars,
                   hdrVars, dueVars, sched_running, aps, polling_jobs, life_tick, life_log>>

\* _check_and_run_reports begins: it returns at once when the scheduler is
\* not running, else it reads the reports due now
CheckAndRunReports ==
    /\ fire_pending
    /\ Len(life_log) < MaxLifeEvents
    /\ fire_pending' = FALSE
    /\ IF TickReturnsEarly
       THEN /\ life_log' = Append(life_log, LifeEvent("tick", Len(life_log) + 1, FALSE))
            /\ UNCHANGED life_tick
       ELSE /\ life_log' = Append(life_log, LifeEvent("tick", Len(life_log) + 1, TRUE))
            /\ \E n \in 0..MaxDueFound :
                 life_tick' = IF n = 0 THEN NoTick ELSE [id |-> Len(life_log) + 1, left |-> n]
    /\ UNCHANGED <<pipelineVars, obsVars, testVars, cacheVars, schedVars, parseVars, sortVars,
                   hdrVars, dueVars, sched_running, aps, polling_jobs>>

\* one turn of "for report in reports": process_report of the next due report
ProcessDueReport ==
    /\ life_tick # NoTick
    /\ Len(life_log) < MaxLifeEvents
    /\ life_log' = Append(life_log, LifeEvent("report", life_tick.id, TRUE))
    /\ life_tick' = IF life_tick.left = 1 THEN NoTick
                    ELSE [life_tick EXCEPT !.left = @ - 1]
    /\ UNCHANGED <<pipelineVars, obsVars, testVars, cacheVars, schedVars, parseVars, sortVars,
                   hdrVars, dueVars, sched_running, aps, polling_jobs, fire_pending>>

\* SpecLife: a scheduler object started and stopped in any order while its
\* interval fires
InitLife ==
    /\ PipelineIdle /\ TestIdle /\ CacheIdle /\ SchedIdle /\ ParseIdle /\ SortIdle /\ HdrIdle
    /\ DueIdle /\ LifeIdle

NextLife ==
    \/ Start
    \/ Stop
    \/ IntervalFires
    \/ CheckAndRunReports
    \/ ProcessDueReport

SpecLife == InitLife /\ [][NextLife]_vars

----------------------------------------------------------------------------
(* Observations on the call log *)

CallsTo(ep) == SelectSeq(calls, LAMBDA c : c.ep = ep)

ProcessCalls == CallsTo("ExecuteWorkflowQueryForProcess")

ProcessCallArgs == [i \in 1..Len(ProcessCalls) |-> ProcessCalls[i].arg]

StatsCalls == CallsTo("ExecuteStatisticsQuery")

TransportFailure(o) == o \in {"http_error", "build_failed"}

QueryStageOver == pc \in {"dedup", "deduped"}

IsPrefix(s, t) == Len(s) <= Len(t) /\ \A i \in 1..Len(s) : s[i] = t[i]

NoDuplicates(s) == \A i, j \in 1..Len(s) : s[i] = s[j] => i = j

FirstIndex(s, x) == CHOOSE i \in 1..Len(s) : s[i] = x /\ \A j \in 1..(i - 1) : s[j] # x

\* the rows of the processes whose call came back with a body, in call order
RowsOfSucceeded(cs) == Concat([i \in 1..Len(cs) |->
                                 IF cs[i].outcome = "ok" THEN rows[cs[i].arg] ELSE <<>>])

----------------------------------------------------------------------------
(* C1 - every run of process_report that passes the configuration checks    *)
(* and ends, an exception raised on the way included, has written one       *)
(* run-log entry, set last_run, and recomputed next_run from the cron       *)
(* expression.                                                              *)

RunEnded == pc = "done" /\ config = "ok"

ErrorInTrail == ("Error processing report: " \o exception) \in Range(messages)

NextRunRecomputed ==
    IF cron_schedule > 0
    THEN next_run > now /\ next_run % cron_schedule = 0 /\ next_run - now <= cron_schedule
    ELSE next_run = NoTime

\* C1: a run that passed the configuration checks and ended has one run-log entry,
\* last_run set and next_run recomputed
C1_TerminalStateLogsAndSchedules ==
    RunEnded =>
        /\ Len(run_logs) = 1
        /\ last_run = now
        /\ NextRunRecomputed

\* the same for the runs that ended without an exception
C1_ReturnsLogAndSchedule ==
    (RunEnded /\ ~ErrorInTrail) =>
        /\ Len(run_logs) = 1
        /\ last_run = now
        /\ NextRunRecomputed

C1_Witness ==
    /\ RunEnded
    /\ ErrorInTrail
    /\ Len(run_logs) = 1
    /\ run_logs[1].status = "error"
    /\ last_run = NoTime
    /\ next_run = now

----------------------------------------------------------------------------
(* C2 - a run that reached the sending of the emails is logged success      *)
(* exactly when no send failed, partial exactly when some were sent and     *)
(* some failed, error exactly when none was sent and some failed; the log   *)
(* entry's emails_sent and emails_failed are the numbers of sends that      *)
(* succeeded and failed.                                                    *)

Delivered == Len(SelectSeq(outbox, LAMBDA m : m.delivered))

Undelivered == Len(SelectSeq(outbox, LAMBDA m : ~m.delivered))

SendingOver == RunEnded /\ "Emails sent" \in Range(messages)

\* C2: logged status and counts follow the numbers of sends that succeeded and failed
C2_StatusFromCounts ==
    SendingOver =>
        /\ Len(run_logs) = 1
        /\ run_logs[1].status = "success" <=> Undelivered = 0
        /\ run_logs[1].status = "partial" <=> (Delivered > 0 /\ Undelivered > 0)
        /\ run_logs[1].status = "error" <=> (Delivered = 0 /\ Undelivered > 0)
        /\ run_logs[1].emails_sent = Delivered
        /\ run_logs[1].emails_failed = Undelivered

C2_Witness ==
    /\ SendingOver
    /\ Len(outbox) = 5
    /\ Delivered = 3
    /\ Undelivered = 2
    /\ run_logs[1].status = "partial"
    /\ run_logs[1].emails_sent = 3
    /\ run_logs[1].emails_failed = 2

----------------------------------------------------------------------------
(* C3 - the call without a scope enters the fallback (the statistics query  *)
(* and the per-process queries) exactly when the bulk call itself failed;   *)
(* a bulk call answered with zero rows gives the empty list and no further  *)
(* call.                                                                    *)

BulkCalled == process_nos = <<>> /\ Len(calls) >= 1

FallbackEntered == pc = "fb_stats" \/ Len(StatsCalls) + Len(ProcessCalls) > 0

\* C3: the fallback is entered exactly when the bulk call failed
C3_FallbackIffBulkFailed ==
    BulkCalled =>
        /\ calls[1].ep = "ExecuteWorkflowQueryForAll"
        /\ FallbackEntered <=> TransportFailure(calls[1].outcome)
        /\ (calls[1].outcome = "ok" /\ BulkRows = <<>> /\ pc = "deduped")
               => (unique_instances = <<>> /\ Len(calls) = 1)

C3_Witness ==
    /\ BulkCalled
    /\ pc = "deduped"
    /\ calls[1].outcome = "ok"
    /\ BulkRows = <<>>
    /\ unique_instances = <<>>
    /\ Len(calls) = 1

----------------------------------------------------------------------------
(* C4 - after a failed bulk call the fallback issues one statistics query,  *)
(* of type 108 when the flags are ERROR_INSTANCES and 102 otherwise, then   *)
(* queries exactly the processes reported with a count above zero, in the   *)
(* reported order, and returns only the rows of those processes.            *)

ReportedActive ==
    LET kept == SelectSeq(result_rows, LAMBDA e : e.CountValue > 0)
    IN  [i \in 1..Len(kept) |-> kept[i].EntryNo]

\* C4: one statistics query of the right type, then the processes reported with a
\* count above zero, in order
C4_FallbackQueriesReportedActive ==
    (BulkCalled /\ Len(calls) >= 2) =>
        /\ TransportFailure(calls[1].outcome)
        /\ calls[2].ep = "ExecuteStatisticsQuery"
        /\ calls[2].arg = (IF workflow_flags = ERROR_INSTANCES THEN 108 ELSE 102)
        /\ Len(StatsCalls) = 1
        /\ IsPrefix(ProcessCallArgs, ReportedActive)
        /\ \A i \in 1..Len(ProcessCalls) : StatsCount(calls[2].arg, ProcessCalls[i].arg) > 0
        /\ (QueryStageOver /\ calls[2].outcome = "ok") =>
               /\ ProcessCallArgs = ReportedActive
               /\ [i \in 1..Len(calls) - 2 |-> calls[i + 2]] = ProcessCalls
               /\ Range(instance_nos) = Range(RowsOfSucceeded(ProcessCalls))

C4_Witness ==
    /\ BulkCalled
    /\ pc = "deduped"
    /\ Len(result_rows) = 2
    /\ result_rows[1].EntryNo = 10 /\ result_rows[1].CountValue > 0
    /\ result_rows[2].EntryNo = 20 /\ result_rows[2].CountValue = 0
    /\ ProcessCallArgs = <<10>>
    /\ ProcessCalls[1].outcome = "ok"
    /\ unique_instances # <<>>
    /\ Range(unique_instances) = Range(rows[10])

----------------------------------------------------------------------------
(* C5 - with an explicit scope the statistics pre-filter changes nothing:   *)
(* when the per-process queries issued all answer, the refs obtained are    *)
(* those of all requested processes, for every flag value; and a failed     *)
(* statistics call leaves every requested process to be queried.            *)

AllProcessCallsOk == \A i \in 1..Len(ProcessCalls) : ProcessCalls[i].outcome = "ok"

RequestedRefs == UNION {Range(rows[p]) : p \in Range(process_nos)}

\* C5: the refs obtained are those of every requested process, whatever the flags
C5_PreFilterOnlyOptimises ==
    (process_nos # <<>> /\ pc = "deduped" /\ AllProcessCallsOk) =>
        /\ Range(unique_instances) = RequestedRefs
        /\ calls[1].outcome # "ok" => ProcessCallArgs = UniqueProcessNos(process_nos)

\* the same for the queries of the running instances only
C5_RunningOnly == IsRunningQuery(workflow_flags) => C5_PreFilterOnlyOptimises

C5_Witness ==
    /\ process_nos # <<>>
    /\ pc = "deduped"
    /\ workflow_flags = FINISHED_INSTANCES
    /\ calls[1].outcome = "ok"
    /\ RequestedRefs # {}
    /\ unique_instances = <<>>

----------------------------------------------------------------------------
(* C6 - in the fallback's per-process loop a failed query never ends the    *)
(* loop: every process of the list is queried, the rows of the processes    *)
(* that answered are all collected, and each failure is recorded (in        *)
(* failed_processes or in what _post printed).                              *)

FailureRecorded(c) == c.arg \in Range(failed_processes) \/ <<c.ep, c.arg>> \in printed

FallbackLoopOver == BulkCalled /\ QueryStageOver /\ process_ids # <<>>

\* C6: the loop goes on after a failed query, and the failure is recorded
C6_FallbackSkipsAndRecords ==
    FallbackLoopOver =>
        /\ ProcessCallArgs = process_ids
        /\ all_instances = RowsOfSucceeded(ProcessCalls)
        /\ \A i \in 1..Len(ProcessCalls) :
               ProcessCalls[i].outcome # "ok" => FailureRecorded(ProcessCalls[i])

\* the same without the record of the failure
C6_FallbackSkips ==
    FallbackLoopOver =>
        /\ ProcessCallArgs = process_ids
        /\ all_instances = RowsOfSucceeded(ProcessCalls)

C6_Witness ==
    /\ FallbackLoopOver
    /\ Len(process_ids) = 2
    /\ ProcessCalls[1].outcome = "build_failed"
    /\ ProcessCalls[2].outcome = "ok"
    /\ failed_processes = <<>>
    /\ printed = {}
    /\ all_instances = rows[process_ids[2]]
    /\ all_instances # <<>>

----------------------------------------------------------------------------
(* C7 - a run in which a remote call failed and the fallback did not make   *)
(* up for it (every per-process query of an explicit scope failed, or the   *)
(* fallback's statistics call failed) is logged with status error.          *)

EveryScopeQueryFailed ==
    /\ process_nos # <<>>
    /\ ProcessCalls # <<>>
    /\ \A i \in 1..Len(ProcessCalls) : TransportFailure(ProcessCalls[i].outcome)

FallbackStatsFailed ==
    /\ BulkCalled
    /\ Len(calls) >= 2
    /\ TransportFailure(calls[1].outcome)
    /\ calls[2].ep = "ExecuteStatisticsQuery"
    /\ TransportFailure(calls[2].outcome)

\* C7: a run with an unrecovered transport failure is logged with status error
C7_TransportFailureLoggedError ==
    (RunEnded /\ (EveryScopeQueryFailed \/ FallbackStatsFailed)) =>
        /\ Len(run_logs) = 1
        /\ run_logs[1].status = "error"

C7_Witness ==
    /\ RunEnded
    /\ FallbackStatsFailed
    /\ BulkRows # <<>>
    /\ Len(run_logs) = 1
    /\ run_logs[1].status = "success"
    /\ returned = "True"

----------------------------------------------------------------------------
(* C8 - the list handed to the detail fetcher holds each distinct           *)
(* (instance_no, token_no) pair of the queried list exactly once, in the    *)
(* order of first discovery; refs that differ only in token_no are kept.    *)

\* C8: each distinct (instance_no, token_no) pair once, in order of first discovery
C8_DedupByPair ==
    pc = "deduped" =>
        /\ NoDuplicates(unique_instances)
        /\ Range(unique_instances) = Range(instance_nos)
        /\ \A i, j \in 1..Len(unique_instances) :
               i < j => FirstIndex(instance_nos, unique_instances[i])
                            < FirstIndex(instance_nos, unique_instances[j])

C8_Witness ==
    /\ pc = "deduped"
    /\ instance_nos = <<<<1, 0>>, <<1, 1>>, <<1, 0>>, <<2, 0>>>>
    /\ unique_instances = <<<<1, 0>>, <<1, 1>>, <<2, 0>>>>

----------------------------------------------------------------------------
(* C9 - during the detail fetch at most 10 requests are in flight at any    *)
(* moment, whatever the number of refs and the order of completion; a task  *)
(* beyond the cap waits for a slot, and every ref is fetched in the end.    *)

DetailCalls == CallsTo("GetWorkflowInstance")

EveryRefFetched ==
    /\ Len(DetailCalls) = Len(unique_instances)
    /\ \A i \in 1..Len(task) : task[i] = "done"

\* C9: at most 10 fetches in flight, the others wait for a slot, every ref is fetched
C9_BoundedFanout ==
    /\ [](Cardinality(InFlight) <= 10)
    /\ [](\A i \in 1..Len(task) : task[i] = "waiting" => Cardinality(InFlight) + semaphore = 10)
    /\ [](pc = "returned" => EveryRefFetched)
    /\ (pc = "deduped") ~> (pc = "returned")

C9_Witness ==
    /\ pc = "fetching"
    /\ Cardinality(InFlight) = 10
    /\ waiters # <<>>
    /\ Len(unique_instances) > 10

----------------------------------------------------------------------------
(* C10 - a detail fetch that fails is neither repeated nor fatal: every ref *)
(* is requested once, a ref whose fetch failed gives no row, and the rows   *)
(* of every ref whose fetch succeeded are returned.                         *)

RowsForRef(ref) ==
    LET of_ref == SelectSeq(results, LAMBDA r : r.instance_no = ref[1] /\ r.token_no = ref[2])
    IN  [k \in 1..Len(of_ref) |->
            [instance_no |-> of_ref[k].instance_no, token_no |-> of_ref[k].token_no,
             user_id |-> of_ref[k].user_id,
             user_display_name |-> of_ref[k].user_display_name,
             user_smtp |-> of_ref[k].user_smtp]]

ExpectedRowsForRef(ref) ==
    IF ref[1] \in unreachable THEN <<>>
    ELSE [k \in 1..Len(assigned[ref[1]]) |->
             [instance_no |-> ref[1], token_no |-> ref[2],
              user_id |-> assigned[ref[1]][k].user_id,
              user_display_name |-> assigned[ref[1]][k].display_name,
              user_smtp |-> assigned[ref[1]][k].smtp]]

----------------------------------------------------------------------------
(* C11 - the expansion of the assignees ends with a result for every        *)
(* membership graph, a group that contains itself directly or through       *)
(* another group included, and the result holds only single users that are  *)
(* not disabled.                                                            *)

DirectoryUser(id) == CHOOSE u \in Directory : u.user_id = id

RowFromEnabledSingleUser(row) ==
    /\ \E u \in Directory : u.user_id = row.user_id
    /\ DirectoryUser(row.user_id).user_type = SINGLE_USER
    /\ ~DirectoryUser(row.user_id).disabled

\* the groups a list of directory entries names
GroupsIn(users) == {users[k].user_id : k \in {j \in 1..Len(users) : users[j].user_type = USER_GROUP}}

\* what a lookup of group g answers with
AnsweredMembers(g) == IF group_outcome[g] = "ok" THEN members[g] ELSE <<>>

RECURSIVE GroupClosure(_)
GroupClosure(S) ==
    LET T == S \cup UNION {GroupsIn(AnsweredMembers(g)) : g \in S}
    IN  IF T = S THEN S ELSE GroupClosure(T)

\* the groups reached from the assignees of instance n
ReachedGroups(n) == GroupClosure(GroupsIn(assigned[n]))

\* some group reached from instance n contains itself, directly or not
CyclicFor(n) ==
    \E g \in ReachedGroups(n) : g \in GroupClosure(GroupsIn(AnsweredMembers(g)))

FetchedInstances ==
    {unique_instances[i][1] : i \in 1..Len(unique_instances)} \ unreachable

\* C11: the expansion never ends in an exception, and every row is built from
\* a single user that is not disabled
C11_ExpansionTerminates ==
    /\ pc # "raised"
    /\ (pc = "returned" /\ ~skip_user_expansion) =>
           \A k \in 1..Len(results) : RowFromEnabledSingleUser(results[k])

\* the same for the graphs in which no reached group contains itself
C11_AcyclicTerminates ==
    (\A n \in FetchedInstances : ~CyclicFor(n)) => C11_ExpansionTerminates

C11_Witness ==
    /\ pc = "raised"
    /\ exception = "RecursionError"
    /\ ~skip_user_expansion
    /\ 1 \in FetchedInstances
    /\ assigned[1] = <<Alice, GroupA>>
    /\ members[20] = <<GroupA>>
    /\ group_outcome[20] = "ok"
    /\ Len(calls) > MaxDepth

----------------------------------------------------------------------------
(* C12 - when no group reached from an instance's assignees contains        *)
(* itself, the expansion gives exactly the enabled single users reached     *)
(* through the nested groups, at any depth; a lookup answered "not a group" *)
(* counts as a group without members and raises nothing; no disabled user   *)
(* appears.                                                                 *)

EnabledSingleIds(users) ==
    {users[k].user_id : k \in {j \in 1..Len(users) :
                                  users[j].user_type = SINGLE_USER /\ ~users[j].disabled}}

\* ids of the enabled single users reached from the assignees of instance n
ReachableUserIds(n) ==
    EnabledSingleIds(assigned[n])
        \cup UNION {EnabledSingleIds(AnsweredMembers(g)) : g \in ReachedGroups(n)}

RowUserIds(n) == {results[k].user_id : k \in {j \in 1..Len(results) : results[j].instance_no = n}}

\* every lookup of a group reached from instance n was answered, with members
\* or with "not a group"
LookupsAnswered(n) == \A g \in ReachedGroups(n) : group_outcome[g] \in {"ok", "wrong_type"}

C12_NotAGroupReached ==
    /\ pc = "returned"
    /\ ~skip_user_expansion
    /\ 1 \in FetchedInstances
    /\ assigned[1] = <<Alice, GroupA>>
    /\ members[20] = <<Bob, Gone>>
    /\ group_outcome[20] = "wrong_type"
    /\ RowUserIds(1) = {1}

----------------------------------------------------------------------------
(* C13 - with the expansion of users on, every row returned by              *)
(* get_all_workflow_instances is built from an assignee that is a single    *)
(* user and not disabled: never from a group, a system user or a disabled   *)
(* user, whether assigned directly or found in a group.                     *)

\* C13: every returned row names an enabled single user of the directory
C13_RowsFromEnabledSingleUsers ==
    (pc = "returned" /\ ~skip_user_expansion) =>
        \A k \in 1..Len(results) :
            /\ RowFromEnabledSingleUser(results[k])
            /\ results[k].user_display_name = DirectoryUser(results[k].user_id).display_name
            /\ results[k].user_smtp = DirectoryUser(results[k].user_id).smtp

C13_Witness ==
    /\ pc = "returned"
    /\ ~skip_user_expansion
    /\ 1 \in FetchedInstances
    /\ assigned[1] = <<GroupA, Gone>>
    /\ members[20] = <<Daemon, Alice>>
    /\ group_outcome[20] = "ok"
    /\ RowUserIds(1) = {1}

----------------------------------------------------------------------------
(* C14 - with skip_user_expansion the call makes no group lookup and        *)
(* returns one row for every ref whose detail was fetched, named "SYSTEM",  *)
(* however many assignees the instance has, none included.                  *)

GroupLookupCalls == CallsTo("GetUsersFromGroup")

RefsFetched == SelectSeq(unique_instances, LAMBDA ref : ref[1] \notin unreachable)

\* C14: no group lookup, and exactly one SYSTEM row per fetched ref, in order
C14_SkipGivesOneSystemRow ==
    skip_user_expansion =>
        /\ GroupLookupCalls = <<>>
        /\ pc # "raised"
        /\ pc = "returned" =>
               /\ Len(results) = Len(RefsFetched)
               /\ \A k \in 1..Len(results) :
                      /\ <<results[k].instance_no, results[k].token_no>> = RefsFetched[k]
                      /\ results[k].user_display_name = "SYSTEM"
                      /\ results[k].user_id = 0
                      /\ results[k].user_smtp = ""

C14_Witness ==
    /\ skip_user_expansion
    /\ pc = "returned"
    /\ Len(unique_instances) = 3
    /\ unreachable = {}
    /\ assigned[1] = <<Alice, GroupA>>
    /\ members[20] = <<GroupA>>
    /\ assigned[2] = <<Bob>>
    /\ Len(results) = 3
    /\ \A k \in 1..3 : results[k].user_display_name = "SYSTEM"

\* an instance without assignees gives its SYSTEM rows all the same
C14_NoAssigneeReached ==
    /\ skip_user_expansion
    /\ pc = "returned"
    /\ Len(unique_instances) = 2
    /\ assigned[1] = <<>>
    /\ Len(results) = 2

----------------------------------------------------------------------------
(* C15 - whatever the order in which the concurrent detail fetches          *)
(* complete, a fetched detail is paired with the token_no of the ref it was *)
(* fetched for, every returned row carries that ref's instance_no and       *)
(* token_no, and its link is                                                *)
(* base_url/tdwv/#/workflows/instance/{instance_no}/{token_no}.             *)

RefIndex(ref) == CHOOSE i \in 1..Len(unique_instances) : unique_instances[i] = ref

RowRef(row) == <<row.instance_no, row.token_no>>

\* C15: the i-th gathered result holds the i-th ref's token; rows follow the
\* refs in order and link to their own instance and token
C15_TokenFollowsRef ==
    /\ pc \in {"fetching", "returned"} =>
           \A i \in 1..Len(task) :
               task[i] = "done" =>
                   /\ instances_with_tokens[i].token_no = unique_instances[i][2]
                   /\ instances_with_tokens[i].instance.found =>
                          instances_with_tokens[i].instance.instance_no = unique_instances[i][1]
    /\ pc = "returned" =>
           /\ \A k \in 1..Len(results) :
                  /\ RowRef(results[k]) \in Range(RefsFetched)
                  /\ results[k].twa_url = <<"base_url", "/tdwv/#/workflows/instance/",
                                            results[k].instance_no, "/", results[k].token_no>>
           /\ \A k, l \in 1..Len(results) :
                  k < l => RefIndex(RowRef(results[k])) <= RefIndex(RowRef(results[l]))
           /\ \A i \in 1..Len(unique_instances) :
                  (unique_instances[i][1] \notin unreachable /\ assigned[unique_instances[i][1]] # <<>>)
                      => \E k \in 1..Len(results) : RowRef(results[k]) = unique_instances[i]

C15_Witness ==
    /\ pc = "returned"
    /\ Len(unique_instances) = 4
    /\ unreachable = {}
    /\ assigned[1] = <<Alice>>
    /\ assigned[2] = <<Alice, Bob>>
    /\ Len(progress) = 4
    /\ progress[1].instance_no = 2
    /\ progress[2].instance_no = 2
    /\ [k \in 1..Len(results) |-> RowRef(results[k])]
           = <<<<1, 1>>, <<1, 0>>, <<2, 1>>, <<2, 1>>, <<2, 0>>, <<2, 0>>>>

----------------------------------------------------------------------------
(* C16 - grouping partitions the flattened assignments: an assignment whose *)
(* address holds an "@" is in the group keyed by exactly that address and   *)
(* nowhere else, any other assignment is in the unroutable list and nowhere *)
(* else; the group sizes and the unroutable count add up to the             *)
(* instances-found count of the run, and a non-zero unroutable count is in  *)
(* the message trail.                                                       *)

Occurrences(s, x) == Len(SelectSeq(s, LAMBDA y : y = x))

RECURSIVE GroupSizes(_)
GroupSizes(groups) ==
    IF groups = <<>> THEN 0 ELSE Len(Head(groups).instances) + GroupSizes(Tail(groups))

LacksAt(row) == row.user_smtp \notin AddressesWithAt

Grouped == pc \in {"emailing", "raised"} \/ (RunEnded /\ instances_by_user # <<>>)
                \/ (RunEnded /\ invalid_instances # <<>>)

WarningsInTrail == {m \in Range(messages) : \E n \in 0..Len(results) :
                        m = "Warning: " \o ToString(n) \o " instances without valid email"}

C16_BlankAddressReached ==
    /\ Grouped
    /\ Len(invalid_instances) = 2
    /\ invalid_instances[1].user_smtp = ""
    /\ invalid_instances[2].user_smtp = "nomail"
    /\ Len(instances_by_user) = 1
    /\ Len(instances_by_user[1].instances) = 1

----------------------------------------------------------------------------
(* C17 - once the messages are handed to send_bulk, every recipient group   *)
(* has exactly one rendered message and exactly one send attempt, in the    *)
(* order of the groups; a failed send does not stop the attempts that       *)
(* follow, and sent + failed is the number of recipient groups.             *)

\* C17: one message and one attempt per group, whatever attempts failed
C17_OneAttemptPerGroup ==
    /\ pc = "emailing" =>
           /\ Len(email_messages) = Len(instances_by_user)
           /\ \A g \in 1..Len(email_messages) :
                  email_messages[g].instances = instances_by_user[g].instances
           /\ Len(outbox) <= Len(email_messages)
           /\ sent + failed = Len(outbox)
           /\ sent = Delivered
           /\ failed = Undelivered
    /\ SendingOver =>
           /\ Len(email_messages) = Len(instances_by_user)
           /\ Len(outbox) = Len(instances_by_user)
           /\ \A g \in 1..Len(instances_by_user) :
                  outbox[g].to_address = email_messages[g].to_address
           /\ sent + failed = Len(instances_by_user)
           /\ emails_sent + emails_failed = Len(instances_by_user)
           /\ emails_sent = Delivered
           /\ emails_failed = Undelivered

C17_Witness ==
    /\ SendingOver
    /\ Len(instances_by_user) = 3
    /\ Len(outbox) = 3
    /\ ~outbox[1].delivered
    /\ outbox[2].delivered
    /\ ~outbox[3].delivered
    /\ emails_sent = 1
    /\ emails_failed = 2

----------------------------------------------------------------------------
(* C18 - with send_all_to_admin set, every message of the run is addressed  *)
(* to the report's admin address and none to the address of a workflow      *)
(* user; without it, each message is addressed to its group's address.      *)

MessagesBuilt == pc = "emailing" \/ SendingOver

AddressedAsClaimed(g) ==
    IF send_all_to_admin
    THEN /\ email_messages[g].to_address = admin_email
         /\ email_messages[g].to_address # instances_by_user[g].user_email
    ELSE email_messages[g].to_address = instances_by_user[g].user_email

\* C18: with the flag set every message goes to the admin address and none to a
\* user's own address; without it every message goes to its group's address
C18_AdminGetsEverything ==
    MessagesBuilt =>
        /\ \A g \in 1..Len(email_messages) : AddressedAsClaimed(g)
        /\ \A k \in 1..Len(outbox) : outbox[k].to_address = email_messages[k].to_address

\* the same for the reports whose admin address is filled in whenever the flag is set
C18_ConfiguredAdminGetsEverything ==
    (MessagesBuilt /\ (send_all_to_admin => admin_email # "")) =>
        /\ \A g \in 1..Len(email_messages) : AddressedAsClaimed(g)
        /\ \A k \in 1..Len(outbox) : outbox[k].to_address = email_messages[k].to_address

C18_Witness ==
    /\ SendingOver
    /\ send_all_to_admin
    /\ admin_email = ""
    /\ Len(outbox) = 2
    /\ outbox[1].to_address = "alice@x"
    /\ outbox[1].delivered
    /\ outbox[2].to_address = "bob@x"

C18_AdminReached ==
    /\ SendingOver
    /\ send_all_to_admin
    /\ admin_email = "admin@x"
    /\ Len(outbox) = 2
    /\ outbox[1].to_address = "admin@x"
    /\ outbox[2].to_address = "admin@x"

C18_UnusedAdminAddressReached ==
    /\ SendingOver
    /\ ~send_all_to_admin
    /\ admin_email = "admin@x"
    /\ Len(outbox) = 2
    /\ outbox[1].to_address = "alice@x"
    /\ outbox[2].to_address = "bob@x"

----------------------------------------------------------------------------
(* C19 - an exception raised while get_all_workflow_instances runs aborts   *)
(* the run: one run-log entry with status error whose message holds the     *)
(* exception's text is recorded, and no email is rendered or sent.          *)

QueryExceptions == {"AttributeError", "RecursionError"}

\* C19: an exception of the querying stage is logged as error with its text,
\* and the run sends nothing
C19_QueryExceptionLoggedError ==
    /\ exception \in QueryExceptions =>
           /\ pc \in {"raised", "done"}
           /\ instances_by_user = <<>>
           /\ email_messages = <<>>
           /\ outbox = <<>>
    /\ (pc = "done" /\ exception \in QueryExceptions) =>
           /\ Len(run_logs) = 1
           /\ run_logs[1].status = "error"
           /\ run_logs[1].message = "Error processing report: " \o exception
           /\ run_logs[1].emails_sent = 0
           /\ messages[Len(messages)] = "Error processing report: " \o exception
           /\ returned = "False"
           /\ emails_sent = 0

C19_Witness ==
    /\ pc = "done"
    /\ exception = "AttributeError"
    /\ calls # <<>>
    /\ \E p \in Procs : rows[p] # <<>>
    /\ Len(run_logs) = 1
    /\ run_logs[1].status = "error"
    /\ outbox = <<>>

----------------------------------------------------------------------------
(* C20 - when the report, its tenant (missing or inactive), its template or *)
(* the default SMTP configuration is missing, process_report makes no       *)
(* workflow-API call and sends no email, returns False, and its message     *)
(* trail is the one message naming the missing item.                        *)

MissingItem ==
    [no_report |-> "Report 7 not found",
     no_tenant |-> "Tenant for report Weekly not found or inactive",
     tenant_inactive |-> "Tenant for report Weekly not found or inactive",
     no_template |-> "Template for report Weekly not found",
     no_smtp |-> "No default SMTP configuration found"]

\* C20: a missing report, tenant, template or SMTP configuration ends the run
\* before any remote call, with False and the message naming what is missing
C20_MissingConfigurationAborts ==
    config \in DOMAIN MissingItem =>
        /\ pc \in {"idle", "done"}
        /\ calls = <<>>
        /\ outbox = <<>>
        /\ email_messages = <<>>
        /\ pc = "done" =>
               /\ returned = "False"
               /\ messages = <<MissingItem[config]>>
               /\ run_logs = <<>>
               /\ last_run = NoTime

C20_Witness ==
    /\ pc = "done"
    /\ config = "no_smtp"
    /\ returned = "False"
    /\ messages = <<"No default SMTP configuration found">>
    /\ calls = <<>>
    /\ \E p \in Procs : rows[p] # <<>>

C20_InactiveTenantReached ==
    /\ pc = "done"
    /\ config = "tenant_inactive"
    /\ returned = "False"
    /\ calls = <<>>

----------------------------------------------------------------------------
(* C21 - test_report, test_report_with_data and render_preview never reach  *)
(* the emailing stage: on every path no message is built or sent, no        *)
(* run-log entry is written and last_run and next_run stay as they were;    *)
(* the preview is rendered for a recipient group that has the most          *)
(* instances.                                                               *)

\* the groups the running variant chooses its preview from
PreviewSource == IF variant = "render_preview" THEN instances_data ELSE instances_by_user

C21_WithDataReached ==
    /\ pc = "done"
    /\ variant = "test_report_with_data"
    /\ Len(instances_data) = 2
    /\ preview.user_email = instances_data[2].user_email
    /\ Len(preview.instances) = 2

C21_RenderPreviewReached ==
    /\ pc = "done"
    /\ variant = "render_preview"
    /\ Len(instances_data) = 2
    /\ preview.user_email = instances_data[2].user_email
    /\ Len(preview.instances) = 2

C21_TestErrorReached ==
    /\ pc = "done"
    /\ variant \in TestVariants
    /\ exception # ""
    /\ returned = "False"

----------------------------------------------------------------------------
(* C22 - two calls of get_all_workflow_processes for the same tenant within *)
(* the TTL issue exactly one GetObjectsList call in total, a call after the *)
(* TTL has expired issues a second one, and a cached entry is returned only *)
(* while it is younger than the TTL.                                        *)

ListCalls == CallsTo("GetObjectsList")

\* the first two calls are default calls of the same tenant record and have returned
TwoCallsOfOneTenant ==
    /\ Len(gap) = 2
    /\ gap[1].tenant = gap[2].tenant
    /\ gap[1].use_cache /\ gap[2].use_cache
    /\ gap[1].state = "returned" /\ gap[2].state = "returned"

\* C22: one remote call for two calls within the TTL, a second one after the
\* TTL, and no entry returned at an age of the TTL or more
C22_OneRemoteCallPerWindow ==
    /\ TwoCallsOfOneTenant =>
           /\ gap[2].started - gap[1].started < PROCESS_CACHE_TTL => Len(ListCalls) = 1
           /\ gap[2].started - gap[1].finished > PROCESS_CACHE_TTL => Len(ListCalls) = 2
    /\ \A i \in 1..Len(gap) :
           gap[i].hit => gap[i].started - gap[i].entry_timestamp < PROCESS_CACHE_TTL

\* the same for a second call that starts after the first one has returned a
\* list, with an entry still returned at the age of exactly the TTL
C22_SequentialCallsShareOneFetch ==
    /\ (TwoCallsOfOneTenant /\ gap[2].prior_done /\ gap[1].outcome = "ok") =>
           /\ gap[2].started - gap[1].finished <= PROCESS_CACHE_TTL =>
                  /\ Len(ListCalls) = 1
                  /\ gap[2].hit
                  /\ gap[2].result = gap[1].result
           /\ gap[2].started - gap[1].finished > PROCESS_CACHE_TTL =>
                  /\ Len(ListCalls) = 2
                  /\ ~gap[2].hit
    /\ \A i \in 1..Len(gap) :
           gap[i].hit => gap[i].started - gap[i].entry_timestamp <= PROCESS_CACHE_TTL

C22_Witness ==
    /\ TwoCallsOfOneTenant
    /\ gap[1].started = gap[2].started
    /\ ~gap[2].prior_done
    /\ gap[1].outcome = "ok" /\ gap[2].outcome = "ok"
    /\ Len(ListCalls) = 2

C22_FailedFetchReached ==
    /\ TwoCallsOfOneTenant
    /\ gap[2].prior_done
    /\ gap[1].outcome = "http_error"
    /\ gap[1].result = <<>>
    /\ gap[2].started = gap[1].finished
    /\ Len(ListCalls) = 2

C22_HitAtTTLReached ==
    /\ TwoCallsOfOneTenant
    /\ gap[2].hit
    /\ gap[2].started - gap[2].entry_timestamp = PROCESS_CACHE_TTL

C22_ExpiryReached ==
    /\ TwoCallsOfOneTenant
    /\ gap[1].outcome = "ok"
    /\ gap[2].started - gap[1].finished = PROCESS_CACHE_TTL + 1
    /\ ~gap[2].hit
    /\ Len(ListCalls) = 2

----------------------------------------------------------------------------
(* C23 - the process cache is keyed by tenant identity: whatever calls were *)
(* made for other tenants, a call for one tenant never returns a process    *)
(* list fetched for a different tenant record or base URL.                  *)

\* the list the remote system of tenant record t gives
OwnProcesses(t) == SortProcesses(ExtractProcesses(RemoteItems(Tenants[t].base_url)))

NameShared(t) == \E u \in 1..Len(Tenants) : u # t /\ Tenants[u].name = Tenants[t].name

\* C23: a returned call has nothing, or the list of its own tenant's system
C23_CacheKeyedByTenant ==
    \A i \in 1..Len(gap) :
        gap[i].state = "returned" =>
            gap[i].result \in {<<>>, OwnProcesses(gap[i].tenant)}

\* the same for the tenant records whose name no other record carries
C23_UniqueNameKeepsOwnList ==
    \A i \in 1..Len(gap) :
        (gap[i].state = "returned" /\ ~NameShared(gap[i].tenant)) =>
            gap[i].result \in {<<>>, OwnProcesses(gap[i].tenant)}

C23_Witness ==
    /\ Len(gap) = 2
    /\ gap[1].tenant = 1
    /\ gap[1].result = OwnProcesses(1)
    /\ gap[2].tenant = 3
    /\ gap[2].hit
    /\ gap[2].result = OwnProcesses(1)
    /\ OwnProcesses(1) # OwnProcesses(3)

C23_OtherTenantReached ==
    /\ Len(gap) = 2
    /\ gap[1].tenant = 1
    /\ gap[1].result = OwnProcesses(1)
    /\ gap[2].tenant = 2
    /\ gap[2].state = "returned"
    /\ gap[2].result = OwnProcesses(2)
    /\ Len(OwnProcesses(2)) = 2
    /\ OwnProcesses(2)[1].process_no = 22

----------------------------------------------------------------------------
(* C24 - clear_process_cache with a tenant name removes that tenant's entry *)
(* and leaves every other entry as it was; without a name it removes all    *)
(* entries; the next get_all_workflow_processes call for an invalidated     *)
(* tenant issues a GetObjectsList call.                                     *)

ClearStepWith(key) ==
    /\ Len(clear_log') = Len(clear_log) + 1
    /\ clear_log'[Len(clear_log')].tenant_name = key

\* an entry emptied while no call was awaiting its response stays empty until
\* the next call for its tenant name
ClearedUntilNextCall ==
    \A k \in 1..Len(clear_log) : \A n \in TenantNames :
        (/\ ~clear_log[k].in_flight
         /\ clear_log[k].tenant_name \in {"", n}
         /\ \A j \in (clear_log[k].calls_before + 1)..Len(gap) : Tenants[gap[j].tenant].name # n)
            => process_cache[n] = NoEntry

CallStepFor(name) ==
    /\ Len(gap') = Len(gap) + 1
    /\ Tenants[gap'[Len(gap')].tenant].name = name

C24_CallAfterClearReached ==
    /\ Len(clear_log) = 1
    /\ clear_log[1].tenant_name = "acme"
    /\ clear_log[1].calls_before = 1
    /\ ~clear_log[1].in_flight
    /\ Len(gap) = 2
    /\ gap[1].tenant = 1 /\ gap[1].outcome = "ok" /\ gap[1].state = "returned"
    /\ gap[2].tenant = 1 /\ gap[2].use_cache /\ ~gap[2].hit /\ gap[2].prior_done
    /\ Len(CallsTo("GetObjectsList")) = 2

C24_ClearAllReached ==
    /\ Len(clear_log) = 1
    /\ clear_log[1].tenant_name = ""
    /\ Len(gap) = 2
    /\ gap[1].result # <<>> /\ gap[2].result # <<>>
    /\ gap[1].tenant = 1 /\ gap[2].tenant = 2
    /\ \A n \in TenantNames : process_cache[n] = NoEntry

C24_RefillByEarlierCallReached ==
    /\ Len(clear_log) = 1
    /\ clear_log[1].tenant_name = "acme"
    /\ clear_log[1].in_flight
    /\ clear_log[1].calls_before = 1
    /\ Len(gap) = 2
    /\ gap[2].tenant = 1
    /\ gap[2].hit

----------------------------------------------------------------------------
(* C25 - within one scheduler tick the due reports are processed one after  *)
(* another: the run of a due report starts only after the run of the        *)
(* previous due report of the tick has finished, so at most one run started *)
(* by the tick is in progress at any time.                                  *)

TickRuns(n) == SelectSeq(runs, LAMBDA x : x.origin = "tick" /\ x.tick = n)

\* C25: the runs of a tick follow its list of due reports, and all but the
\* last one started have finished
C25_TickRunsSequentially ==
    \A n \in 1..ticks :
        LET mine == TickRuns(n)
        IN  /\ \A k \in 1..Len(mine) : \A l \in (k + 1)..Len(mine) : mine[k].stage = "done"
            /\ Cardinality({k \in 1..Len(mine) : mine[k].stage # "done"}) <= 1
            /\ n = ticks =>
                   /\ Len(mine) <= Len(due_reports)
                   /\ \A k \in 1..Len(mine) : mine[k].report = due_reports[k]
                   /\ tick_pc = "done" =>
                          /\ Len(mine) = Len(due_reports)
                          /\ \A k \in 1..Len(mine) : mine[k].stage = "done"

C25_Witness ==
    /\ tick_pc = "running"
    /\ due_reports = <<1, 2>>
    /\ Len(TickRuns(1)) = 2
    /\ TickRuns(1)[1].stage = "done"
    /\ TickRuns(1)[1].sent = 2
    /\ TickRuns(1)[2].stage = "emailing"

C25_ErrorThenNextReached ==
    /\ due_reports = <<1, 2>>
    /\ Len(report_logs) = 2
    /\ report_logs[1].status = "error"
    /\ report_logs[1].report = 1
    /\ report_logs[2].report = 2
    /\ tick_pc = "done"

----------------------------------------------------------------------------
(* C26 - there is no per-report mutual exclusion: a manual run_report_now   *)
(* and a tick processing the same report can be in progress together, and   *)
(* both send the digest to the same recipient and both write a run log.     *)

MailsOfRun(k) == SelectSeq(mail_log, LAMBDA m : m.run = k)

ManualRuns == SelectSeq(runs, LAMBDA x : x.origin = "manual")

\* C26: a manual run of any report can start whatever the other runs are
\* doing, and every run sends to each of its own recipients and, unless the
\* store raised to its caller, writes its own run log whatever the other
\* runs have sent
C26_NoMutualExclusion ==
    /\ \A r \in Reports : Len(ManualRuns) < MaxManualRuns => ENABLED RunReportNow(r)
    /\ \A k \in 1..Len(runs) :
          /\ Len(MailsOfRun(k)) = runs[k].sent
          /\ \A j \in 1..runs[k].sent : MailsOfRun(k)[j].to_address = runs[k].to_send[j]
          /\ (runs[k].stage = "done" /\ runs[k].result # "raised") =>
                 /\ \E l \in 1..Len(report_logs) : report_logs[l].run = k
                 /\ runs[k].to_send # <<>> => runs[k].sent = Len(runs[k].to_send)

\* both runs of report 1 overlapped, each sent to alice and to bob, each logged
C26_Witness ==
    /\ Len(runs) = 2
    /\ runs[1].report = 1 /\ runs[2].report = 1
    /\ {runs[1].origin, runs[2].origin} = {"tick", "manual"}
    /\ runs[1].stage = "done" /\ runs[2].stage = "done"
    /\ Len(mail_log) = 4
    /\ mail_log[1].to_address = "alice@x" /\ mail_log[2].to_address = "alice@x"
    /\ mail_log[1].run # mail_log[2].run
    /\ Len(report_logs) = 2
    /\ report_logs[1].status = "success" /\ report_logs[2].status = "success"
    /\ report_logs[1].run # report_logs[2].run

C26_BothInProgressReached ==
    \E k, l \in 1..Len(runs) :
        /\ runs[k].origin = "tick" /\ runs[l].origin = "manual"
        /\ runs[k].report = runs[l].report
        /\ runs[k].stage = "emailing" /\ runs[l].stage = "emailing"
        /\ runs[k].sent >= 1 /\ runs[l].sent >= 1

----------------------------------------------------------------------------
(* C27 - with sort order task_due_date the overdue entries come first in    *)
(* ascending due date, then the other dated entries in ascending due date,  *)
(* then the entries without due date; equal keys keep their input order.    *)

Sorting(order) == sort_pc = "done" /\ sort_order = order /\ ~sorted_instances.raised

\* 0 overdue, 1 dated and not overdue, 2 without due date
DueClass(inst) ==
    IF inst.task_due.kind = "none" THEN 2 ELSE IF utc_now > inst.task_due.t THEN 0 ELSE 1

IsPermutation(out, inp) ==
    /\ Len(out) = Len(inp)
    /\ \A i \in 1..Len(inp) : \E j \in 1..Len(out) : out[j] = inp[i]

DueOrdered(out) ==
    \A p, q \in 1..Len(out) :
        p < q =>
            /\ DueClass(out[p]) <= DueClass(out[q])
            /\ (DueClass(out[p]) = DueClass(out[q]) /\ DueClass(out[p]) < 2) =>
                   out[p].task_due.t <= out[q].task_due.t
            /\ (DueClass(out[p]) = DueClass(out[q]) /\ out[p].task_due = out[q].task_due) =>
                   out[p].instance_no < out[q].instance_no

\* C27: a due-date sort gives the input's entries, overdue then dated then
\* undated, each class by ascending due date, ties in input order
C27_DueDateOrder ==
    Sorting(TASK_DUE_DATE) =>
        /\ IsPermutation(sorted_instances.value, user_instances)
        /\ DueOrdered(sorted_instances.value)

\* due dates [past, none, future] give past, future, none
C27_Witness ==
    /\ Sorting(TASK_DUE_DATE)
    /\ Len(user_instances) = 3
    /\ DueClass(user_instances[1]) = 0
    /\ DueClass(user_instances[2]) = 2
    /\ DueClass(user_instances[3]) = 1
    /\ sorted_instances.value = <<user_instances[1], user_instances[3], user_instances[2]>>

C27_TieKeepsInputOrderReached ==
    /\ Sorting(TASK_DUE_DATE)
    /\ Len(user_instances) = 3
    /\ user_instances[1].task_due = user_instances[3].task_due
    /\ user_instances[1].process_name # user_instances[3].process_name
    /\ DueClass(user_instances[1]) = 1
    /\ DueClass(user_instances[2]) = 0
    /\ sorted_instances.value = <<user_instances[2], user_instances[1], user_instances[3]>>

----------------------------------------------------------------------------
(* C28 - for every list get_all_workflow_instances can produce, with start  *)
(* or due dates missing, defaulted, aware or naive, each of the three       *)
(* orders returns without raising a stable ordering that is a permutation.  *)

KnownOrders == {TASK_DUE_DATE, PROCESS_NAME, TASK_START_DATE}

KeyOf(inst) ==
    IF sort_order = PROCESS_NAME THEN process_name_key(inst)
    ELSE IF sort_order = TASK_START_DATE THEN task_start_key(inst)
    ELSE due_date_key(inst, utc_now)

StablyOrdered(out) ==
    \A p, q \in 1..Len(out) :
        p < q =>
            /\ ~KeyLt(KeyOf(out[q]), KeyOf(out[p]))
            /\ ~KeyLt(KeyOf(out[p]), KeyOf(out[q])) => out[p].instance_no < out[q].instance_no

\* C28: each of the three orders returns, and returns a stable ordering of
\* the input
C28_ThreeOrdersTotal ==
    (sort_pc = "done" /\ sort_order \in KnownOrders) =>
        /\ ~sorted_instances.raised
        /\ IsPermutation(sorted_instances.value, user_instances)
        /\ StablyOrdered(sorted_instances.value)

\* what returns is a stable ordering of the input
C28_ReturnedIsStableOrdering ==
    (sort_pc = "done" /\ sort_order \in KnownOrders /\ ~sorted_instances.raised) =>
        /\ IsPermutation(sorted_instances.value, user_instances)
        /\ StablyOrdered(sorted_instances.value)

\* the dates the order looks at
KeyedDates == {KeyOf(user_instances[i]).d.kind : i \in 1..Len(user_instances)}

\* the orders return when the dates they look at are all aware or all naive
C28_OneKindNeverRaises ==
    (sort_pc = "done" /\ sort_order \in KnownOrders /\ Cardinality(KeyedDates) <= 1) =>
        ~sorted_instances.raised

\* a row without TaskStartDate and a row with an epoch count, by start date
C28_Witness ==
    /\ sort_pc = "done"
    /\ sort_order = TASK_START_DATE
    /\ Len(wf_rows) = 2
    /\ wf_rows[1].TaskStartDate = NullDate
    /\ wf_rows[2].TaskStartDate.form = "dotnet"
    /\ sorted_instances.raised

\* one process, a row without due date and a row with a zoneless ISO due date
C28_ProcessNameRaisesReached ==
    /\ sort_pc = "done"
    /\ sort_order = PROCESS_NAME
    /\ Len(wf_rows) = 2
    /\ wf_rows[1].ProcessName = wf_rows[2].ProcessName
    /\ wf_rows[1].TaskDueDate = NullDate
    /\ wf_rows[2].TaskDueDate.form = "iso"
    /\ user_instances[2].task_due.kind = "naive"
    /\ sorted_instances.raised

C28_DueDateRaisesReached ==
    /\ sort_pc = "done"
    /\ sort_order = TASK_DUE_DATE
    /\ Len(wf_rows) = 2
    /\ sorted_instances.raised

C28_StartOrderReturnsReached ==
    /\ Sorting(TASK_START_DATE)
    /\ Len(user_instances) = 3
    /\ sorted_instances.value # user_instances

----------------------------------------------------------------------------
(* C29 - a sort_order that is none of the three known orders, missing or    *)
(* null included, gives the due-date ordering and does not raise.           *)

\* C29: under an unknown order the call returns, and returns what the
\* due-date order returns on the same list
C29_UnknownOrderNeverRaises ==
    (sort_pc = "done" /\ sort_order \notin KnownOrders) =>
        /\ ~sorted_instances.raised
        /\ sorted_instances = sort_instances(user_instances, TASK_DUE_DATE, utc_now)
        /\ DueOrdered(sorted_instances.value)

\* under an unknown order the call ends as the due-date order ends on the
\* same list, what it returns is in due-date order, and it raises only on an
\* aware and a naive due date
C29_UnknownOrderFallsBack ==
    (sort_pc = "done" /\ sort_order \notin KnownOrders) =>
        /\ sorted_instances = sort_instances(user_instances, TASK_DUE_DATE, utc_now)
        /\ ~sorted_instances.raised =>
               /\ IsPermutation(sorted_instances.value, user_instances)
               /\ DueOrdered(sorted_instances.value)
        /\ sorted_instances.raised =>
               \E i, j \in 1..Len(user_instances) :
                   /\ user_instances[i].task_due.kind = "aware"
                   /\ user_instances[j].task_due.kind = "naive"

\* null as order, two overdue rows, one due date an epoch count and the
\* other a zoneless ISO string
C29_Witness ==
    /\ sort_pc = "done"
    /\ sort_order = "null"
    /\ Len(wf_rows) = 2
    /\ wf_rows[1].TaskDueDate = [form |-> "dotnet", n |-> 1700000, tz |-> ""]
    /\ wf_rows[2].TaskDueDate = [form |-> "iso", n |-> 1700000, tz |-> ""]
    /\ sorted_instances.raised

\* null as order, due dates [none, future, past], a list the start-date order
\* leaves otherwise
C29_NullOrderReached ==
    /\ Sorting("null")
    /\ Len(user_instances) = 3
    /\ DueClass(user_instances[1]) = 2
    /\ DueClass(user_instances[2]) = 1
    /\ DueClass(user_instances[3]) = 0
    /\ sorted_instances.value = <<user_instances[3], user_instances[2], user_instances[1]>>
    /\ sorted_instances.value # sort_instances(user_instances, TASK_START_DATE, utc_now).value

C29_OtherStringReached ==
    /\ Sorting("priority")
    /\ Len(user_instances) = 2
    /\ sorted_instances.value = <<user_instances[2], user_instances[1]>>

----------------------------------------------------------------------------
(* C30 - parse_dotnet_date never raises: for every input, an epoch count    *)
(* beyond the representable dates included, it returns a date or null.      *)

\* C30: a finished call has returned, whatever the string
C30_NeverRaises == parse_pc = "done" => ~parsed.raised

\* the same for the strings whose epoch count is a representable date
C30_RepresentableNeverRaises ==
    (parse_pc = "done" /\ (date_str.form = "dotnet" => date_str.n <= MaxTimestamp)) =>
        ~parsed.raised

\* every string that does not match a form gives None
C30_UnparsableGivesNone ==
    (parse_pc = "done" /\ date_str.form \in {"null", "empty", "malformed"}) => parsed = None

C30_Witness ==
    /\ parse_pc = "done"
    /\ date_str.form = "dotnet"
    /\ date_str.n = MaxTimestamp + 1
    /\ parsed.raised

C30_LastInstantReached ==
    /\ parse_pc = "done"
    /\ date_str.form = "dotnet"
    /\ date_str.n = MaxTimestamp
    /\ parsed = Aware(MaxTimestamp)

C30_MalformedReached ==
    /\ parse_pc = "done"
    /\ date_str.form = "malformed"
    /\ date_str.tz = "Z"
    /\ parsed = None

----------------------------------------------------------------------------
(* C31 - every request for a tenant configured as single-instance omits the *)
(* tenant-name header on every path that builds a client for the tenant;    *)
(* for other tenants the header is present.                                 *)

HeaderAsConfigured(request) == ("TenantName" \in request.headers) <=> (tenant_single # "true")

\* C31: on every path the requests carry TenantName exactly when the tenant
\* is not configured as single-instance
C31_SingleInstanceOmitsTenantHeader ==
    \A i \in 1..Len(requests) : HeaderAsConfigured(requests[i])

\* the same on the paths of the tenants router
C31_TenantsRouterOmitsTenantHeader ==
    client_path \in {"process_listing", "connection_test"} =>
        \A i \in 1..Len(requests) : HeaderAsConfigured(requests[i])

\* tenants that are not single-instance get the header on every path
C31_OtherTenantsCarryHeader ==
    tenant_single # "true" => \A i \in 1..Len(requests) : "TenantName" \in requests[i].headers

\* a report run of a single-instance tenant sends TenantName
C31_Witness ==
    /\ client_path = "report_run"
    /\ tenant_single = "true"
    /\ Len(requests) = 2
    /\ "TenantName" \in requests[1].headers

C31_ListingOmitsReached ==
    /\ client_path = "process_listing"
    /\ tenant_single = "true"
    /\ Len(requests) = 1
    /\ "TenantName" \notin requests[1].headers

C31_ReportTestSendsReached ==
    /\ client_path = "report_test"
    /\ tenant_single = "true"
    /\ Len(requests) = 1
    /\ "TenantName" \in requests[1].headers

----------------------------------------------------------------------------
(* C32 - progress_cb is invoked exactly once per ref, fetched or failed,    *)
(* and under every interleaving the completed_count arguments of successive *)
(* invocations are 1, 2, ..., N with total_count always N.                  *)

DoneTasks == {i \in 1..Len(task) : task[i] = "done"}

GatherComplete == pc = "fetching" /\ Len(task) > 0 /\ DoneTasks = 1..Len(task)

----------------------------------------------------------------------------
(* C33 - after the scheduler has run an enabled report at time t, no later  *)
(* tick selects it as due before its next cron occurrence after t, whatever *)
(* the outcome of the run and whatever the offset of local time from UTC.   *)

EditedBetween(i, j) == \E k \in i..j : due_events[k].kind = "edited"

\* a tick's run ended at event i and a tick selected the report at event j
TickRanThenSelected(i, j) ==
    /\ i < j
    /\ due_events[i].kind = "ended" /\ due_events[i].origin = "tick"
    /\ due_events[j].kind = "started" /\ due_events[j].origin = "tick"
    /\ ~EditedBetween(1, j)

\* the selection at event j is not before the first occurrence after event i
NotBeforeNextOccurrence(i, j) ==
    due_events[j].utc + utc_offset
        >= CronNext(due_events[i].cron_schedule, due_events[i].utc + utc_offset)

\* C33: a selection after a tick's run is never before the next occurrence
\* of the schedule after that run
C33_NotDueAgainBeforeNextOccurrence ==
    \A i, j \in 1..Len(due_events) : TickRanThenSelected(i, j) => NotBeforeNextOccurrence(i, j)

\* the same for runs that reached the schedule update, the local clock not
\* behind UTC
C33_UpdatedRunNotDueEarly ==
    \A i, j \in 1..Len(due_events) :
        (TickRanThenSelected(i, j) /\ UpdatesSchedule(due_events[i].outcome) /\ utc_offset >= 0) =>
            NotBeforeNextOccurrence(i, j)

\* the run ended with an exception and the report is selected in the same hour
C33_Witness ==
    /\ Len(due_events) >= 3
    /\ TickRanThenSelected(2, 3)
    /\ due_events[2].outcome = "error"
    /\ due_events[3].utc = due_events[2].utc
    /\ ~NotBeforeNextOccurrence(2, 3)

\* the local clock two hours behind UTC: the run succeeded and the report is
\* selected again before the occurrence
C33_OffsetSelectedAgainReached ==
    /\ utc_offset = -2
    /\ Len(due_events) >= 3
    /\ TickRanThenSelected(2, 3)
    /\ due_events[2].outcome = "success"
    /\ ~NotBeforeNextOccurrence(2, 3)

C33_AbortedSelectedAgainReached ==
    /\ utc_offset = 0
    /\ Len(due_events) >= 3
    /\ TickRanThenSelected(2, 3)
    /\ due_events[2].outcome = "aborted"
    /\ ~NotBeforeNextOccurrence(2, 3)

\* the local clock an hour ahead of UTC
C33_NextOccurrenceSelectedReached ==
    /\ utc_offset = 1
    /\ Len(due_events) >= 3
    /\ TickRanThenSelected(2, 3)
    /\ due_events[2].outcome = "partial"
    /\ NotBeforeNextOccurrence(2, 3)

----------------------------------------------------------------------------
(* C34 - under any interleaving of an edit of cron_schedule with a run in   *)
(* progress, once both have finished next_run is the next occurrence of the *)
(* stored cron_schedule; a run never writes a next_run computed from the    *)
(* cron expression it read at its start and that has since been replaced.   *)

LastEvent == due_events[Len(due_events)]

\* the last thing that happened is a run writing the schedule
RunWroteSchedule ==
    /\ due_events # <<>>
    /\ LastEvent.kind = "ended"
    /\ UpdatesSchedule(LastEvent.outcome)
    /\ utc_clock = LastEvent.utc

\* the run that just ended had the report edited while it was in progress
EditedDuringRun ==
    /\ Len(due_events) >= 3
    /\ due_events[Len(due_events) - 1].kind = "edited"
    /\ due_events[Len(due_events) - 2].kind = "started"

\* C34: when a run has written the schedule, next_run is the next occurrence
\* of the stored cron_schedule
C34_NextRunFollowsStoredCron ==
    RunWroteSchedule => stored_report.next_run = NextRunFrom(stored_report.cron_schedule)

\* the same for the runs during which the report was not edited
C34_UneditedRunFollowsStoredCron ==
    (RunWroteSchedule /\ ~EditedBetween(1, Len(due_events))) =>
        stored_report.next_run = NextRunFrom(stored_report.cron_schedule)

\* read every 2 hours, edited to every 3 hours, next_run written from 2
C34_Witness ==
    /\ RunWroteSchedule
    /\ EditedDuringRun
    /\ due_events[Len(due_events) - 2].cron_schedule = 2
    /\ stored_report.cron_schedule = 3
    /\ stored_report.next_run = CronNext(2, LocalNow)
    /\ stored_report.next_run # CronNext(3, LocalNow)

C34_EditAfterRunReached ==
    /\ Len(due_events) = 3
    /\ due_events[1].kind = "started"
    /\ due_events[2].kind = "ended"
    /\ due_events[2].outcome = "success"
    /\ due_events[3].kind = "edited"
    /\ due_events[2].cron_schedule # stored_report.cron_schedule
    /\ stored_report.next_run = NextRunFrom(stored_report.cron_schedule)

----------------------------------------------------------------------------
(* C35 - process_report renders the messages of all recipient groups before *)
(* sending any of them: if the rendering of any one group fails, no email   *)
(* of the run is sent and the run is logged with status error.              *)

RenderingFailed == exception = "Template rendering error"

\* C35: an email is sent only with every group rendered; after a failed
\* rendering nothing is sent, and the run ends logged as error
C35_AllRenderedBeforeAnySent ==
    /\ outbox # <<>> => (~RenderingFailed /\ Len(email_messages) = Len(instances_by_user))
    /\ RenderingFailed =>
          /\ outbox = <<>>
          /\ pc \in {"raised", "done"}
          /\ pc = "done" =>
                /\ run_logs # <<>>
                /\ run_logs[Len(run_logs)].status = "error"
                /\ run_logs[Len(run_logs)].emails_sent = 0
                /\ returned = "False"

\* two groups, the second failed to render after the first was rendered
C35_Witness ==
    /\ RenderingFailed
    /\ pc = "done"
    /\ Len(instances_by_user) = 2
    /\ Len(email_messages) = 1
    /\ outbox = <<>>
    /\ Len(run_logs) = 1
    /\ run_logs[1].status = "error"

C35_AllRenderedThenSentReached ==
    /\ ~RenderingFailed
    /\ Len(instances_by_user) = 2
    /\ Len(email_messages) = 2
    /\ Len(outbox) = 1

----------------------------------------------------------------------------
(* C36 - a disabled report is never run: process_report on a disabled       *)
(* report, from the scheduler or from run-now, returns failure without any  *)
(* remote call, email, run log or change of last_run/next_run; the          *)
(* scheduler never selects a disabled report; the test variants still run.  *)

\* the step is a process_report call on the report being refused
RefusedStep ==
    /\ Len(due_events') = Len(due_events) + 1
    /\ due_events'[Len(due_events')].kind = "refused"

C36_RefusalChangesNothing ==
    [][RefusedStep => (stored_report' = stored_report /\ due_effects' = due_effects
                       /\ due_run' = due_run)]_vars

C36_DisabledTestedReached ==
    /\ Len(due_events) = 1
    /\ due_events[1].kind = "tested"
    /\ ~due_events[1].enabled
    /\ due_effects.remote_calls = 1
    /\ due_effects.run_logs = 0

\* disabled by an edit while running: the run in progress goes on
C36_DisabledWhileRunningReached ==
    /\ Len(due_events) = 3
    /\ due_events[1].kind = "started"
    /\ due_events[2].kind = "edited"
    /\ ~stored_report.enabled
    /\ due_events[3].kind = "ended"
    /\ due_effects.emails = 1

----------------------------------------------------------------------------
(* C37 - within one tick a report whose processing fails or raises does not *)
(* keep the remaining due reports from being processed: every report        *)
(* returned as due at the start of the tick is attempted exactly once.      *)

\* the runs the current tick started for report r
AttemptsOf(r) ==
    {k \in 1..Len(runs) : runs[k].origin = "tick" /\ runs[k].tick = ticks /\ runs[k].report = r}

\* the reports get_reports_due_now returned to the current tick
DueAtTickStart == {due_reports[i] : i \in 1..Len(due_reports)}

\* C37: the tick attempts no report twice and none that was not due, and
\* when it is over it has attempted each due report once, whatever the runs
\* before it returned or raised
C37_EachDueReportAttemptedOnce ==
    ticks >= 1 =>
        /\ \A r \in Reports : Cardinality(AttemptsOf(r)) <= (IF r \in DueAtTickStart THEN 1 ELSE 0)
        /\ tick_pc = "done" => \A r \in DueAtTickStart : Cardinality(AttemptsOf(r)) = 1

\* the first due report raised, the second was run and sent
C37_Witness ==
    /\ tick_pc = "done"
    /\ due_reports = <<1, 2>>
    /\ \E k \in AttemptsOf(1) : runs[k].result = "raised"
    /\ \E k \in AttemptsOf(2) : runs[k].result = "True"

\* the first due report failed and was logged, the second was run
C37_FailedThenNextReached ==
    /\ tick_pc = "done"
    /\ due_reports = <<1, 2>>
    /\ \E k \in AttemptsOf(1) : runs[k].result = "False"
    /\ \E k \in AttemptsOf(2) : runs[k].result = "False"
    /\ Len(report_logs) = 2

----------------------------------------------------------------------------
(* C38 - when the query stage of process_report yields zero flattened       *)
(* assignments the run sends no email, records a run log with status        *)
(* success and counts 0/0/0, still updates last_run and recomputes          *)
(* next_run, and returns success.                                           *)

\* process_report is over and its query returned an empty list
EmptyRunDone ==
    /\ pc = "done"
    /\ variant = "process_report"
    /\ ConfigOk(config)
    /\ exception = ""
    /\ results = <<>>

\* C38: an empty run sent nothing, logged one success with 0/0/0, set
\* last_run to the time of the run and next_run from the cron expression,
\* and returned True
C38_EmptyRunIsSuccess ==
    EmptyRunDone =>
        /\ outbox = <<>>
        /\ run_logs = <<[status |-> "success", message |-> "No workflow instances found",
                         instances_found |-> 0, emails_sent |-> 0, emails_failed |-> 0]>>
        /\ last_run = now
        /\ next_run = (IF CronValid(cron_schedule) THEN CronNext(cron_schedule, now) ELSE NoTime)
        /\ returned = "True"

\* an empty run of a report with a valid cron expression: next_run has moved
\* past the time of the run
C38_Witness ==
    /\ EmptyRunDone
    /\ CronValid(cron_schedule)
    /\ last_run = now
    /\ next_run > now
    /\ Len(run_logs) = 1
    /\ returned = "True"

----------------------------------------------------------------------------
(* C39 - a list-processes call whose remote request fails never creates or  *)
(* replaces a cache entry, whereas a successful call with use_cache=False   *)
(* always overwrites the tenant's entry with the fresh list and a fresh     *)
(* timestamp.                                                               *)

\* call i gets its answer in this step
GapReturns(i) == gap[i].state = "awaiting" /\ gap'[i].state = "returned"

\* the list the remote system holds for the tenant of call i, as returned
FreshList(i) == SortProcesses(ExtractProcesses(RemoteItems(Tenants[gap[i].tenant].base_url)))

\* C39: the return of a failed call leaves every cache entry as it was, the
\* return of a successful call (use_cache=False included) leaves under the
\* tenant's name the fresh list stamped with the time of the return; the
\* start of a call creates and replaces nothing
C39_FailedKeepsSuccessfulOverwrites ==
    [][/\ \A i \in 1..Len(gap) :
            GapReturns(i) =>
                IF gap[i].outcome = "http_error"
                THEN process_cache' = process_cache /\ gap'[i].result = <<>>
                ELSE /\ process_cache'[CacheKey(gap[i].tenant)] =
                            [timestamp |-> clock, data |-> FreshList(i)]
                     /\ gap'[i].result = FreshList(i)
       /\ Len(gap') > Len(gap) =>
            \A n \in TenantNames : process_cache'[n] \in {process_cache[n], NoEntry}]_vars

\* every entry of the cache was written by a successful call for that name
C39_EntriesComeFromSuccess ==
    \A n \in TenantNames :
        process_cache[n] # NoEntry =>
            \E i \in 1..Len(gap) :
                /\ gap[i].state = "returned" /\ gap[i].outcome = "ok"
                /\ CacheKey(gap[i].tenant) = n
                /\ process_cache[n] = [timestamp |-> gap[i].finished, data |-> gap[i].result]

\* a forced refresh failed half an hour after a successful call: the entry
\* of the first call is still there
C39_Witness ==
    /\ Len(gap) = 2
    /\ gap[1].outcome = "ok" /\ gap[1].state = "returned" /\ gap[1].tenant = 1
    /\ gap[2].tenant = 1 /\ ~gap[2].use_cache
    /\ gap[2].outcome = "http_error" /\ gap[2].state = "returned"
    /\ gap[2].finished > gap[1].finished
    /\ process_cache["acme"] = [timestamp |-> gap[1].finished, data |-> gap[1].result]

\* a forced refresh succeeded while the entry was unexpired: the entry holds
\* the new list under the later time
C39_RefreshOverwritesReached ==
    /\ Len(gap) = 2
    /\ gap[1].outcome = "ok" /\ gap[1].state = "returned" /\ gap[1].tenant = 1
    /\ gap[2].tenant = 3 /\ ~gap[2].use_cache
    /\ gap[2].outcome = "ok" /\ gap[2].state = "returned"
    /\ gap[2].started = gap[1].finished + 1
    /\ gap[2].result # gap[1].result
    /\ process_cache["acme"] = [timestamp |-> gap[2].finished, data |-> gap[2].result]

\* a default call failed with no entry: the cache is still empty for the name
C39_FailedCreatesNothingReached ==
    /\ Len(gap) = 1
    /\ gap[1].use_cache /\ gap[1].outcome = "http_error" /\ gap[1].state = "returned"
    /\ \A n \in TenantNames : process_cache[n] = NoEntry

----------------------------------------------------------------------------
(* C40 - scheduler lifecycle: start() on a running scheduler registers no   *)
(* second polling job, and once stop() has been called no tick that fires   *)
(* afterwards starts processing any report.                                 *)

\* the last start() or stop() before event i of the trail, 0 if none
LastLifeCall(i) ==
    LET before == {k \in 1..(i - 1) : life_log[k].kind \in {"start", "stop"}}
    IN  IF before = {} THEN 0 ELSE CHOOSE k \in before : \A l \in before : l <= k

\* event i comes after a start() with no stop() since
StartedAt(i) == LastLifeCall(i) # 0 /\ life_log[LastLifeCall(i)].kind = "start"

\* event i comes after a stop() with no start() since
StoppedAt(i) == LastLifeCall(i) # 0 /\ life_log[LastLifeCall(i)].kind = "stop"

\* C40: there is never more than one polling job and a start() on a started
\* scheduler registers none; a tick that fires after stop() returns without
\* reading the due reports, and every report processed belongs to a tick
\* that fired while the scheduler was started
C40_OneJobAndNoTickAfterStop ==
    /\ polling_jobs <= 1
    /\ \A i \in 1..Len(life_log) :
          /\ (life_log[i].kind = "start" /\ StartedAt(i)) => ~life_log[i].acted
          /\ (life_log[i].kind = "tick" /\ StoppedAt(i)) => ~life_log[i].acted
          /\ life_log[i].kind = "report" =>
                 /\ life_log[i].tick < i
                 /\ life_log[life_log[i].tick].kind = "tick"
                 /\ StartedAt(life_log[i].tick)

\* started twice, the job submitted, stopped, and the submitted tick ran
\* after the stop: one job was registered and the tick returned at once
C40_Witness ==
    /\ Len(life_log) = 4
    /\ life_log[1] = LifeEvent("start", 0, TRUE)
    /\ life_log[2] = LifeEvent("start", 0, FALSE)
    /\ life_log[3].kind = "stop"
    /\ life_log[4] = LifeEvent("tick", 4, FALSE)
    /\ polling_jobs = 0

\* a tick that fired before stop() and was not cancelled goes on with its list
C40_TickInProgressGoesOnReached ==
    /\ Len(life_log) = 4
    /\ life_log[1].kind = "start"
    /\ life_log[2] = LifeEvent("tick", 2, TRUE)
    /\ life_log[3].kind = "stop"
    /\ life_log[4] = LifeEvent("report", 2, TRUE)

\* stopped and started again: the ticks process reports again
C40_RestartedReached ==
    /\ Len(life_log) = 5
    /\ life_log[1].kind = "start"
    /\ life_log[2].kind = "stop"
    /\ life_log[3] = LifeEvent("start", 0, TRUE)
    /\ life_log[5].kind = "report"

====
